---- MODULE Spec2Model ----
(***************************************************************************)
(* A model of libpak's dependency cache (dependency_cache.go), dependency  *)
(* resolver and file listing (buildpack.go) and archive helpers            *)
(* (layer.go).                                                             *)
(*                                                                         *)
(* Spec is the cache, SpecResolve the resolver, SpecCrush the Crush        *)
(* archive calls and SpecListing one NewFileListing call with its          *)
(* goroutines (FairListing: the same under a fair scheduler);              *)
(* SpecConstruct is NewDependencyCache and SpecRace runs invocations of    *)
(* Artifact side by side, one file operation at a time; SpecContribute is  *)
(* the layer contributors and SpecRoundTrip a CreateTar followed by an     *)
(* ExtractTar of what it wrote.  Each leaves the others' variables at      *)
(* their idle values.                                                      *)
(*                                                                         *)
(* The two cache tiers are directory trees: a tree is a function from a    *)
(* path (a sequence of one or two names below the tier root) to the        *)
(* content found there.  Artifact() is one atomic action: the code is      *)
(* synchronous and the sequential specification Spec runs one call at a    *)
(* time.                                                                   *)
(***************************************************************************)
EXTENDS Naturals, Integers, Sequences, FiniteSets, TLC

VARIABLES
    perm,       \* the tree below DependencyCache.CachePath
    eph,        \* the tree below DependencyCache.DownloadPath
    call,       \* the last Artifact call: its arguments, what it did, what it returned
    calls,      \* number of Artifact calls made so far
    resolver,   \* the DependencyResolver: its Dependencies and StackID
    resolved,   \* the last Resolve call: its arguments and what it returned
    probed,     \* the last Any call: its arguments and what it returned
    dest,       \* the tree below the destination directory of the Extract calls
    extracted,  \* the last Extract call: its arguments, what it did, what it returned
    tarred,     \* the last CreateTar or CreateTarGz call: arguments, output, result
    ops,        \* number of crush calls made so far
    root,       \* the directory given to NewFileListing: its name and the tree below it
    units,      \* the goroutine NewFileListing starts for a path: its state and result
    listing,    \* the NewFileListing call: the walk, the loop, what it returned
    constructed, \* the NewDependencyCache call: the buildpack given, the cache returned
    procs,      \* the concurrent invocations of Artifact: where each is, its locals
    layer,      \* the libcnb.Layer the caller of Contribute holds
    layerDir,   \* what is found at the layer's path
    contributed \* the last Contribute call: its arguments, what it did, what it returned

\* The variables of the cache, of the resolver, of crush and of NewFileListing.
cacheVars == <<perm, eph, call, calls, constructed, procs>>
resolverVars == <<resolver, resolved, probed>>
crushVars == <<dest, extracted, tarred, ops>>
listingVars == <<root, units, listing>>
layerVars == <<layer, layerDir, contributed>>

vars == <<cacheVars, resolverVars, crushVars, listingVars, layerVars>>

(***************************************************************************)
(* Bounds and program constants                                            *)
(***************************************************************************)

\* Artifact calls explored from the initial state.
MaxCalls == 3

\* Longest catalog (DependencyResolver.Dependencies) explored.
MaxCatalog == 3

\* Crush calls explored from the initial state.
MaxOps == 1

\* Largest stripComponents explored.
MaxStrip == 3

\* Largest number of writes a destination writer accepts before it fails.
MaxRoom == 7

\* Invocations of Artifact that run at the same time.
MaxProcs == 3

\* Calls of Contribute in a run.
MaxContributes == 2

\* download(): a response is accepted when StatusMin <= StatusCode <= StatusMax.
StatusMin == 200
StatusMax == 299

(***************************************************************************)
(* Data: BuildpackDependency                                               *)
(***************************************************************************)

FieldNames == {"ID", "Name", "Version", "URI", "SHA256", "Stacks", "Licenses"}

\* A Go slice is nil or holds elements; toml and reflect.DeepEqual tell them apart.
NilSlice == [isNil |-> TRUE, elems |-> <<>>]
SliceOf(s) == [isNil |-> FALSE, elems |-> s]

\* The zero value of BuildpackDependency: `var actual BuildpackDependency`.
ZeroDependency ==
    [ID |-> "", Name |-> "", Version |-> "", URI |-> <<>>, SHA256 |-> "",
     Stacks |-> NilSlice, Licenses |-> NilSlice]

\* A URI is its sequence of path segments; the first names the origin host.
\* filepath.Base returns the last segment.
Base(uri) == IF Len(uri) = 0 THEN "." ELSE uri[Len(uri)]

\* The sidecar of digest h is "<h>.toml".
TomlName(h) == h \o ".toml"

Digests == {"h1", "h2"}

License1 == [Type |-> "t1", URI |-> "lu1"]

\* The descriptor the tests use, and descriptors that differ from it in one field.
Dep0 ==
    [ID |-> "id1", Name |-> "n1", Version |-> "1.0.0", URI |-> <<"o1", "a">>,
     SHA256 |-> "h1", Stacks |-> SliceOf(<<"s1">>), Licenses |-> SliceOf(<<License1>>)]

DepID == [Dep0 EXCEPT !.ID = "id2"]
DepName == [Dep0 EXCEPT !.Name = "n2"]
DepVersion == [Dep0 EXCEPT !.Version = "2.0.0"]
DepURI == [Dep0 EXCEPT !.URI = <<"o2", "a">>]
DepSHA == [Dep0 EXCEPT !.SHA256 = "h2"]
DepNoStacks == [Dep0 EXCEPT !.Stacks = NilSlice]
DepNoLicenses == [Dep0 EXCEPT !.Licenses = NilSlice]
DepNoSHA == [Dep0 EXCEPT !.SHA256 = ""]
\* No digest, and a URI whose last segment is the name of a sidecar file.
DepNoSHAToml == [Dep0 EXCEPT !.SHA256 = "", !.URI = <<"o1", TomlName("h1")>>]

Dependencies ==
    {Dep0, DepID, DepName, DepVersion, DepURI, DepSHA, DepNoStacks, DepNoLicenses,
     DepNoSHA, DepNoSHAToml}

(***************************************************************************)
(* Data: file contents and trees                                           *)
(***************************************************************************)

\* Bodies an origin serves.  Sha256 is the digest of a byte string: "b1" is the
\* artifact of digest h1, "b2" the artifact of digest h2, "" the empty file.
Bodies == {"b1", "b2"}

Sha256(bytes) ==
    CASE bytes = "b1" -> "h1"
      [] bytes = "b2" -> "h2"
      [] OTHER -> "h0"

\* What a path holds: nothing, a directory, a file of bytes, or a file holding a
\* TOML document (the keys present and their values).
NoFile == [kind |-> "none"]
Directory == [kind |-> "dir"]
Blob(bytes) == [kind |-> "blob", bytes |-> bytes]
TomlFile(keys, v) == [kind |-> "toml", keys |-> keys, v |-> v]

Bases == {Base(dep.URI) : dep \in Dependencies}
TopNames == Digests \cup {TomlName(h) : h \in Digests} \cup Bases
Paths == {<<n>> : n \in TopNames} \cup {<<h, b>> : h \in Digests, b \in Bases}

EmptyTree == [p \in Paths |-> NoFile]

(***************************************************************************)
(* toml: Encoder.Encode and DecodeFile                                     *)
(***************************************************************************)

\* toml.NewEncoder(out).Encode(dependency): every string field is written, a
\* nil slice is not written at all.
Encode(dependency) ==
    TomlFile({f \in FieldNames :
                 \/ f \notin {"Stacks", "Licenses"}
                 \/ ~dependency[f].isNil},
             dependency)

\* Decoding a document into an existing value sets the fields whose keys are
\* present and leaves every other field as it was.
Unify(file, actual) ==
    [f \in FieldNames |-> IF f \in file.keys THEN file.v[f] ELSE actual[f]]

\* toml.DecodeFile(file, &actual) and the error test that follows it:
\* err is "" (decoded), "notexist" (ignored by the caller) or "decode".
DecodeFile(tree, path, actual) ==
    LET c == tree[path] IN
    CASE c.kind = "none" -> [err |-> "notexist", actual |-> actual]
      [] c.kind = "toml" -> [err |-> "", actual |-> Unify(c, actual)]
      [] c.kind = "blob" /\ c.bytes = "" -> [err |-> "", actual |-> actual]
      [] OTHER -> [err |-> "decode", actual |-> actual]

\* reflect.DeepEqual(dependency, actual)
DeepEqual(dependency, actual) == dependency = actual

(***************************************************************************)
(* The origin                                                              *)
(***************************************************************************)

\* What client.Do and the body do for one request: the request fails, or a
\* response arrives with a status and a body that is read completely or breaks
\* off.  Statuses on both sides of each end of the accepted range occur.

Responses ==
    {[kind |-> "error", status |-> 0, body |-> "", complete |-> FALSE]}
    \cup {[kind |-> "response", status |-> s, body |-> "b1", complete |-> TRUE] :
            s \in {199, 300}}
    \cup {[kind |-> "response", status |-> 200, body |-> b, complete |-> TRUE] :
            b \in Bodies}
    \cup {[kind |-> "response", status |-> 200, body |-> "b1", complete |-> FALSE]}
    \cup {[kind |-> "response", status |-> 299, body |-> "b1", complete |-> TRUE]}

NoResponse == [kind |-> "none", status |-> 0, body |-> "", complete |-> FALSE]

(***************************************************************************)
(* DependencyCache.download and DependencyCache.verify                     *)
(***************************************************************************)

\* filepath.Dir of a path below the tier root.
Dir(path) == SubSeq(path, 1, Len(path) - 1)

\* os.MkdirAll(dir): fails when a regular file is in the way.
MkdirAll(tree, dir) ==
    IF dir = <<>> \/ tree[dir].kind = "dir" THEN [err |-> "", tree |-> tree]
    ELSE IF tree[dir].kind = "none" THEN [err |-> "", tree |-> [tree EXCEPT ![dir] = Directory]]
    ELSE [err |-> "mkdir", tree |-> tree]

\* What io.Copy leaves in the destination when the body breaks off: the file
\* was truncated on open and holds a proper prefix of the body.
Prefix(body) == ""

\* As download, but the destination is opened (created and truncated) before the
\* response status is looked at.
downloadOpenFirst(tree, destination, resp) ==
    IF resp.kind = "error" THEN [err |-> "request", tree |-> tree]
    ELSE LET made == MkdirAll(tree, Dir(destination)) IN
         IF made.err # "" THEN [err |-> "mkdir", tree |-> tree]
         ELSE IF made.tree[destination].kind = "dir"
         THEN [err |-> "open", tree |-> made.tree]
         ELSE IF resp.status < StatusMin \/ resp.status > StatusMax
         THEN [err |-> "status", tree |-> [made.tree EXCEPT ![destination] = Blob("")]]
         ELSE IF ~resp.complete
         THEN [err |-> "copy",
               tree |-> [made.tree EXCEPT ![destination] = Blob(Prefix(resp.body))]]
         ELSE [err |-> "", tree |-> [made.tree EXCEPT ![destination] = Blob(resp.body)]]

\* download(uri, destination): err is "" or the step that failed.
download(tree, destination, resp) ==
    IF resp.kind = "error" THEN [err |-> "request", tree |-> tree]
    ELSE IF resp.status < StatusMin \/ resp.status > StatusMax
    THEN [err |-> "status", tree |-> tree]
    ELSE LET made == MkdirAll(tree, Dir(destination)) IN
         IF made.err # "" THEN [err |-> "mkdir", tree |-> tree]
         ELSE IF made.tree[destination].kind = "dir"
         THEN [err |-> "open", tree |-> made.tree]
         ELSE IF ~resp.complete
         THEN [err |-> "copy",
               tree |-> [made.tree EXCEPT ![destination] = Blob(Prefix(resp.body))]]
         ELSE [err |-> "", tree |-> [made.tree EXCEPT ![destination] = Blob(resp.body)]]

\* The bytes a reader of the file at path gets.
ReadAll(c) == IF c.kind = "blob" THEN c.bytes ELSE "toml-text"

\* As verify, but the digest computed is not compared with the expected one.
verifyNoCompare(tree, path, expected) ==
    IF tree[path].kind = "none" THEN "open" ELSE ""

\* verify(path, expected): err is "", "open" or "mismatch".
verify(tree, path, expected) ==
    IF tree[path].kind = "none" THEN "open"
    ELSE IF expected # Sha256(ReadAll(tree[path])) THEN "mismatch"
    ELSE ""

\* os.Open(path) as the value Artifact returns: the file's content, or an error.
Open(tree, path) ==
    IF tree[path].kind = "none" THEN [err |-> "open", stream |-> NoFile]
    ELSE [err |-> "", stream |-> tree[path]]

(***************************************************************************)
(* DependencyCache.Artifact                                                *)
(***************************************************************************)

SidecarPath(dependency) == <<TomlName(dependency.SHA256)>>
ArtifactPath(dependency) == <<dependency.SHA256, Base(dependency.URI)>>

\* What a call hands back: the new ephemeral tree, the error ("" for none), the
\* stream returned, and the steps taken in order.
Return(tree, err, stream, steps) ==
    [eph |-> tree, err |-> err, stream |-> stream, steps |-> steps]

\* The branch for a dependency without SHA256: download to
\* <DownloadPath>/<base(URI)> and open it.
ArtifactNoSHA(dependency, resp) ==
    LET artifact == <<Base(dependency.URI)>>
        got == download(eph, artifact, resp)
    IN  IF got.err # ""
        THEN Return(got.tree, "download:" \o got.err, NoFile, <<"fetch">>)
        ELSE LET f == Open(got.tree, artifact) IN
             Return(got.tree, f.err, f.stream, <<"fetch", "open-download">>)

\* As ArtifactMiss, but the sidecar is written first, before the download.
ArtifactMissSidecarFirst(dependency, resp, steps) ==
    LET artifact == ArtifactPath(dependency)
        file == SidecarPath(dependency)
        first == IF eph[file].kind = "dir" THEN eph
                 ELSE [eph EXCEPT ![file] = Encode(dependency)]
        got == download(first, artifact, resp)
    IN  IF eph[file].kind = "dir"
        THEN Return(eph, "open-sidecar", NoFile, steps)
        ELSE IF got.err # ""
        THEN Return(got.tree, "download:" \o got.err, NoFile,
                    steps \o <<"write-sidecar", "fetch">>)
        ELSE LET bad == verify(got.tree, artifact, dependency.SHA256)
                 f == Open(got.tree, artifact)
             IN  IF bad # ""
                 THEN Return(got.tree, "verify:" \o bad, NoFile,
                             steps \o <<"write-sidecar", "fetch", "verify">>)
                 ELSE Return(got.tree, f.err, f.stream,
                             steps \o <<"write-sidecar", "fetch", "verify", "open-download">>)

\* The full miss: download into <DownloadPath>/<sha256>/<base(URI)>, verify,
\* write the sidecar, open the artifact.
ArtifactMiss(dependency, resp, steps) ==
    LET artifact == ArtifactPath(dependency)
        got == download(eph, artifact, resp)
    IN  IF got.err # ""
        THEN Return(got.tree, "download:" \o got.err, NoFile, steps \o <<"fetch">>)
        ELSE LET bad == verify(got.tree, artifact, dependency.SHA256) IN
             IF bad # ""
             THEN Return(got.tree, "verify:" \o bad, NoFile, steps \o <<"fetch", "verify">>)
             ELSE LET file == SidecarPath(dependency)
                      written == [got.tree EXCEPT ![file] = Encode(dependency)]
                      f == Open(written, artifact)
                  IN  IF got.tree[file].kind = "dir"
                      THEN Return(got.tree, "open-sidecar", NoFile,
                                  steps \o <<"fetch", "verify">>)
                      ELSE Return(written, f.err, f.stream,
                                  steps \o <<"fetch", "verify", "write-sidecar", "open-download">>)

\* The lookup in the ephemeral tier; actual is what the permanent tier's
\* sidecar left in the variable.
ArtifactEphemeral(dependency, resp, actual, steps) ==
    LET dec == DecodeFile(eph, SidecarPath(dependency), actual) IN
    IF dec.err = "decode"
    THEN Return(eph, "decode-ephemeral", NoFile, steps \o <<"decode-ephemeral">>)
    ELSE IF DeepEqual(dependency, dec.actual)
    THEN LET f == Open(eph, ArtifactPath(dependency)) IN
         Return(eph, f.err, f.stream, steps \o <<"decode-ephemeral", "open-ephemeral">>)
    ELSE ArtifactMiss(dependency, resp, steps \o <<"decode-ephemeral">>)

\* Artifact(dependency), with resp what the origin does if it is asked.
Artifact(dependency, resp) ==
    IF dependency.SHA256 = "" THEN ArtifactNoSHA(dependency, resp)
    ELSE LET dec == DecodeFile(perm, SidecarPath(dependency), ZeroDependency) IN
         IF dec.err = "decode"
         THEN Return(eph, "decode-permanent", NoFile, <<"decode-permanent">>)
         ELSE IF DeepEqual(dependency, dec.actual)
         THEN LET f == Open(perm, ArtifactPath(dependency)) IN
              Return(eph, f.err, f.stream, <<"decode-permanent", "open-permanent">>)
         ELSE ArtifactEphemeral(dependency, resp, dec.actual, <<"decode-permanent">>)

(***************************************************************************)
(* The sequential specification of the cache                               *)
(***************************************************************************)

\* Permanent tiers as a buildpack ships them: empty; the record of Dep0 with
\* its artifact, and for digest h2 a sidecar that is no TOML document; the
\* record of a descriptor that differs from Dep0 in its name, and for digest h2
\* a record whose artifact file is missing.
WithRecord(tree, dep, bytes) ==
    [tree EXCEPT ![SidecarPath(dep)] = Encode(dep),
                 ![<<dep.SHA256>>] = Directory,
                 ![ArtifactPath(dep)] = Blob(bytes)]

PermanentTrees ==
    {EmptyTree,
     [WithRecord(EmptyTree, Dep0, "b1") EXCEPT ![SidecarPath(DepSHA)] = Blob("b2")],
     [WithRecord(EmptyTree, DepName, "b1") EXCEPT ![SidecarPath(DepSHA)] = Encode(DepSHA)]}

NoCall ==
    [dependency |-> ZeroDependency, resp |-> NoResponse,
     err |-> "", stream |-> NoFile, steps |-> <<>>]

\* The idle values of the resolver's variables.
NoResolver == [Dependencies |-> <<>>, StackID |-> ""]
NoResolve == [called |-> FALSE, id |-> "", version |-> "", err |-> "", value |-> ZeroDependency]
NoAny == [called |-> FALSE, id |-> "", version |-> "", value |-> FALSE]

\* The idle values of crush: a tree without paths, an archive source that is
\* not damaged, no Extract call and no CreateTar call yet.
NoTree == <<>>
Intact(entries) == [entries |-> entries, breakAt |-> 0, inData |-> FALSE]
NoExtract ==
    [called |-> FALSE, format |-> "", source |-> Intact(<<>>), stripComponents |-> 0,
     err |-> "", done |-> <<>>]
NoTar ==
    [called |-> FALSE, gz |-> FALSE, source |-> NoTree, room |-> 0,
     err |-> "", out |-> <<>>, closed |-> FALSE, dropped |-> ""]

\* The idle values of NewFileListing: no directory, no error, no call.
NoRoot == [dir |-> "", tree |-> NoTree]
NoListingError == [op |-> "", path |-> <<>>]
NoListing ==
    [pc |-> "idle", visited |-> 0, closer |-> "idle", e |-> <<>>,
     err |-> NoListingError, value |-> NilSlice]

\* libcnb.Layer: its Path, its Metadata (a map from keys to values) and a
\* flag that a LayerFunc sets.  ZeroLayer is libcnb.Layer{}.
ZeroLayer == [Path |-> "", Metadata |-> <<>>, Launch |-> FALSE]

\* The idle values of Contribute: nothing at the layer's path, no call yet.
NoLayerDir == [exists |-> FALSE, files |-> {}, writable |-> TRUE]
NoExpected == [type |-> "", v |-> <<>>]
NoContribute ==
    [n |-> 0, dependency |-> FALSE, expected |-> NoExpected, given |-> ZeroLayer,
     err |-> "", value |-> ZeroLayer, steps |-> <<>>]

\* The idle value of NewDependencyCache: no call yet.
NoBuildpack == [Path |-> <<>>, ID |-> <<>>, Version |-> <<>>]
NoCache == [CachePath |-> <<>>, DownloadPath |-> <<>>, UserAgent |-> <<>>]
NoConstruct == [called |-> FALSE, buildpack |-> NoBuildpack, cache |-> NoCache]

Init ==
    /\ perm \in PermanentTrees
    /\ eph = EmptyTree
    /\ call = NoCall
    /\ calls = 0
    /\ constructed = NoConstruct
    /\ procs = <<>>
    /\ resolver = NoResolver
    /\ resolved = NoResolve
    /\ probed = NoAny
    /\ dest = NoTree
    /\ extracted = NoExtract
    /\ tarred = NoTar
    /\ ops = 0
    /\ root = NoRoot
    /\ units = <<>>
    /\ listing = NoListing
    /\ layer = ZeroLayer
    /\ layerDir = NoLayerDir
    /\ contributed = NoContribute

\* As ArtifactCall, but what the call writes goes to the permanent tier.
ArtifactCallWritesPermanent(dependency, resp) ==
    LET r == Artifact(dependency, resp)
        fetched == \E i \in 1..Len(r.steps) : r.steps[i] = "fetch"
    IN  /\ calls < MaxCalls
        /\ fetched \/ resp = CHOOSE x \in Responses : TRUE
        /\ perm' = [p \in Paths |-> IF r.eph[p] # eph[p] THEN r.eph[p] ELSE perm[p]]
        /\ eph' = eph
        /\ call' = [dependency |-> dependency,
                    resp |-> IF fetched THEN resp ELSE NoResponse,
                    err |-> r.err, stream |-> r.stream, steps |-> r.steps]
        /\ calls' = calls + 1
        /\ UNCHANGED <<layerVars, constructed, procs, resolverVars, crushVars, listingVars>>

\* One call of Artifact.  The origin's behaviour is recorded only when the
\* call asked the origin.
ArtifactCall(dependency, resp) ==
    LET r == Artifact(dependency, resp)
        fetched == \E i \in 1..Len(r.steps) : r.steps[i] = "fetch"
    IN  /\ calls < MaxCalls
        /\ fetched \/ resp = CHOOSE x \in Responses : TRUE
        /\ eph' = r.eph
        /\ call' = [dependency |-> dependency,
                    resp |-> IF fetched THEN resp ELSE NoResponse,
                    err |-> r.err, stream |-> r.stream, steps |-> r.steps]
        /\ calls' = calls + 1
        /\ UNCHANGED <<layerVars, perm, constructed, procs, resolverVars, crushVars, listingVars>>

Next == \E dependency \in Dependencies, resp \in Responses : ArtifactCall(dependency, resp)

Spec == Init /\ [][Next]_vars

(***************************************************************************)
(* semver: versions and constraints (github.com/Masterminds/semver/v3)     *)
(***************************************************************************)

\* A parsed version: major, minor, patch and the pre-release identifiers.
Version(major, minor, patch, pre) ==
    [ok |-> TRUE, major |-> major, minor |-> minor, patch |-> patch, pre |-> pre]
BadVersion == [ok |-> FALSE, major |-> 0, minor |-> 0, patch |-> 0, pre |-> <<>>]

\* semver.NewVersion on the version strings of the model.
NewVersion(s) ==
    CASE s = "1.9.0" -> Version(1, 9, 0, <<>>)
      [] s = "1.10.0" -> Version(1, 10, 0, <<>>)
      [] s = "1.10.0-rc1" -> Version(1, 10, 0, <<"rc1">>)
      [] s = "1.9.0-0" -> Version(1, 9, 0, <<"0">>)
      [] OTHER -> BadVersion

\* The order of two pre-release identifiers: a numeric identifier is lower than
\* an alphanumeric one.
IdentifierRank(x) == IF x = "0" THEN 0 ELSE 1

Sign(a, b) == IF a < b THEN -1 ELSE IF a > b THEN 1 ELSE 0

\* comparePrerelease: a version without pre-release is the greater one.
ComparePrerelease(p, q) ==
    IF p = <<>> /\ q = <<>> THEN 0
    ELSE IF p = <<>> THEN 1
    ELSE IF q = <<>> THEN -1
    ELSE Sign(IdentifierRank(p[1]), IdentifierRank(q[1]))

\* Version.Compare: major, minor, patch, then the pre-release.
Compare(v, w) ==
    IF v.major # w.major THEN Sign(v.major, w.major)
    ELSE IF v.minor # w.minor THEN Sign(v.minor, w.minor)
    ELSE IF v.patch # w.patch THEN Sign(v.patch, w.patch)
    ELSE ComparePrerelease(v.pre, w.pre)

GreaterThan(v, w) == Compare(v, w) > 0

\* semver.NewConstraint on the constraint strings of the model.
NewConstraint(s) ==
    CASE s = "*" -> [ok |-> TRUE, op |-> "*", con |-> Version(0, 0, 0, <<>>)]
      [] s = ">=1.9.0-0" -> [ok |-> TRUE, op |-> ">=", con |-> NewVersion("1.9.0-0")]
      [] s = "<1.10.0" -> [ok |-> TRUE, op |-> "<", con |-> NewVersion("1.10.0")]
      [] OTHER -> [ok |-> FALSE, op |-> "", con |-> BadVersion]

\* Constraints.Check: a version with a pre-release satisfies only a constraint
\* that names one.
Check(vc, v) ==
    IF v.pre # <<>> /\ vc.con.pre = <<>> THEN FALSE
    ELSE CASE vc.op = "*" -> TRUE
           [] vc.op = ">=" -> Compare(v, vc.con) >= 0
           [] vc.op = "<" -> Compare(v, vc.con) < 0
           [] OTHER -> FALSE

(***************************************************************************)
(* DependencyResolver.Resolve                                              *)
(***************************************************************************)

\* As contains, but any non-empty list of stacks is taken to hold the value.
containsAnything(candidates, value) == Len(candidates.elems) > 0

\* DependencyResolver.contains
contains(candidates, value) ==
    \E i \in 1..Len(candidates.elems) : candidates.elems[i] = value

\* The order of the version strings as strings.
StringRank(s) ==
    CASE s = "1.10.0" -> 1
      [] s = "1.10.0-rc1" -> 2
      [] s = "1.9.0" -> 3
      [] OTHER -> 0

\* As less, but comparing the version strings.
lessByString(a, b) == StringRank(a.Version) > StringRank(b.Version)

\* The less function Resolve hands to sort.Slice.
less(a, b) == GreaterThan(NewVersion(a.Version), NewVersion(b.Version))

Swap(seq, i, j) == [seq EXCEPT ![i] = seq[j], ![j] = seq[i]]

\* The inner loop of the insertion sort: move element j down while it is less
\* than the one before it.
RECURSIVE Sink(_, _)
Sink(seq, j) ==
    IF j > 1 /\ less(seq[j], seq[j - 1]) THEN Sink(Swap(seq, j, j - 1), j - 1) ELSE seq

\* sort.Slice on a slice of fewer than 7 elements is an insertion sort.
RECURSIVE InsertionSort(_, _)
InsertionSort(seq, i) ==
    IF i > Len(seq) THEN seq ELSE InsertionSort(Sink(seq, i), i + 1)

\* As Candidates, but an entry is parsed only once its ID and stacks match.
RECURSIVE CandidatesFilterFirst(_, _, _, _, _)
CandidatesFilterFirst(d, id, vc, i, candidates) ==
    IF i > Len(d.Dependencies) THEN [err |-> "", candidates |-> candidates]
    ELSE LET c == d.Dependencies[i]
             v == NewVersion(c.Version)
         IN  IF ~(c.ID = id /\ contains(c.Stacks, d.StackID))
             THEN CandidatesFilterFirst(d, id, vc, i + 1, candidates)
             ELSE IF ~v.ok THEN [err |-> "version", candidates |-> <<>>]
             ELSE IF Check(vc, v)
             THEN CandidatesFilterFirst(d, id, vc, i + 1, Append(candidates, c))
             ELSE CandidatesFilterFirst(d, id, vc, i + 1, candidates)

\* The loop over d.Dependencies: the candidates collected, or the first
\* version that does not parse.
RECURSIVE Candidates(_, _, _, _, _)
Candidates(d, id, vc, i, candidates) ==
    IF i > Len(d.Dependencies) THEN [err |-> "", candidates |-> candidates]
    ELSE LET c == d.Dependencies[i]
             v == NewVersion(c.Version)
         IN  IF ~v.ok THEN [err |-> "version", candidates |-> <<>>]
             ELSE IF c.ID = id /\ Check(vc, v) /\ contains(c.Stacks, d.StackID)
             THEN Candidates(d, id, vc, i + 1, Append(candidates, c))
             ELSE Candidates(d, id, vc, i + 1, candidates)

\* As Resolve, but the constraint is looked at after the loop over the catalog.
ResolveConstraintLast(d, id, version) ==
    LET vc == NewConstraint(IF version = "" THEN "*" ELSE version)
        found == Candidates(d, id, vc, 1, <<>>)
    IN  IF found.err # "" THEN [err |-> found.err, value |-> ZeroDependency]
        ELSE IF ~vc.ok THEN [err |-> "constraint", value |-> ZeroDependency]
        ELSE IF Len(found.candidates) = 0 THEN [err |-> "novalid", value |-> ZeroDependency]
        ELSE [err |-> "", value |-> InsertionSort(found.candidates, 2)[1]]

\* Resolve(id, version): err is "", "constraint", "version" or "novalid".
Resolve(d, id, version) ==
    LET vc == NewConstraint(IF version = "" THEN "*" ELSE version) IN
    IF ~vc.ok THEN [err |-> "constraint", value |-> ZeroDependency]
    ELSE LET found == Candidates(d, id, vc, 1, <<>>) IN
         IF found.err # "" THEN [err |-> found.err, value |-> ZeroDependency]
         ELSE IF Len(found.candidates) = 0 THEN [err |-> "novalid", value |-> ZeroDependency]
         ELSE [err |-> "", value |-> InsertionSort(found.candidates, 2)[1]]

\* As ResolverAny, but the absence of a match counts as success.
AnyUnlessFatal(d, id, version) == Resolve(d, id, version).err \in {"", "novalid"}

\* DependencyResolver.Any (Any itself is an operator of the TLC module)
ResolverAny(d, id, version) == Resolve(d, id, version).err = ""

(***************************************************************************)
(* The specification of the resolver                                       *)
(***************************************************************************)

CatalogEntry(id, version, stacks) ==
    [Dep0 EXCEPT !.ID = id, !.Version = version, !.Stacks = SliceOf(stacks)]

\* Entries of two dependencies, with versions whose semver order differs from
\* their order as strings, one that does not parse, and different stacks.
CatalogEntries ==
    {CatalogEntry("jdk", v, <<"s1">>) : v \in {"1.9.0", "1.10.0", "1.10.0-rc1", "bad"}}
    \cup {CatalogEntry("jdk", v, <<"s2">>) : v \in {"1.10.0", "bad"}}
    \cup {CatalogEntry("jre", "1.10.0", <<"s2", "s1">>)}

Catalogs == UNION {[1..n -> CatalogEntries] : n \in 0..MaxCatalog}

Queries == {"", ">=1.9.0-0", "<1.10.0", ">>1"}

InitResolve ==
    /\ perm = EmptyTree
    /\ eph = EmptyTree
    /\ call = NoCall
    /\ calls = 0
    /\ constructed = NoConstruct
    /\ procs = <<>>
    /\ resolver \in {[Dependencies |-> c, StackID |-> "s1"] : c \in Catalogs}
    /\ resolved = NoResolve
    /\ probed = NoAny
    /\ dest = NoTree
    /\ extracted = NoExtract
    /\ tarred = NoTar
    /\ ops = 0
    /\ root = NoRoot
    /\ units = <<>>
    /\ listing = NoListing
    /\ layer = ZeroLayer
    /\ layerDir = NoLayerDir
    /\ contributed = NoContribute

ResolveCall(id, version) ==
    LET r == Resolve(resolver, id, version) IN
    /\ resolved' = [called |-> TRUE, id |-> id, version |-> version,
                    err |-> r.err, value |-> r.value]
    /\ UNCHANGED <<layerVars, cacheVars, resolver, probed, crushVars, listingVars>>

AnyCall(id, version) ==
    /\ probed' = [called |-> TRUE, id |-> id, version |-> version,
                  value |-> ResolverAny(resolver, id, version)]
    /\ UNCHANGED <<layerVars, cacheVars, resolver, resolved, crushVars, listingVars>>

NextResolve ==
    \E id \in {"jdk", "jre"}, version \in Queries :
        ResolveCall(id, version) \/ AnyCall(id, version)

SpecResolve == InitResolve /\ [][NextResolve]_vars

(***************************************************************************)
(* crush: entry names, paths and the destination tree                      *)
(***************************************************************************)

\* The name of an archive entry is the sequence of its characters.
Separator == "/"

\* strings.Split(source, Separator), one character at a time.
RECURSIVE SplitFrom(_, _, _, _)
SplitFrom(source, i, components, current) ==
    IF i > Len(source) THEN Append(components, current)
    ELSE IF source[i] = Separator
    THEN SplitFrom(source, i + 1, Append(components, current), "")
    ELSE SplitFrom(source, i + 1, components, current \o source[i])

Split(source) == SplitFrom(source, 1, <<>>, "")

\* filepath.Join's Clean over path elements: empty and "." elements vanish,
\* ".." removes the element before it.  A path is the sequence of the
\* elements left.
RECURSIVE CleanFrom(_, _, _)
CleanFrom(elems, i, path) ==
    IF i > Len(elems) THEN path
    ELSE IF elems[i] \in {"", "."} THEN CleanFrom(elems, i + 1, path)
    ELSE IF elems[i] = ".." /\ path # <<>> /\ path[Len(path)] # ".."
    THEN CleanFrom(elems, i + 1, SubSeq(path, 1, Len(path) - 1))
    ELSE CleanFrom(elems, i + 1, Append(path, elems[i]))

Join(elems) == CleanFrom(elems, 1, <<>>)

\* The destination directory; every path of the destination tree is relative to it.
Destination == <<>>

\* As strippedPath, but an entry with exactly stripComponents components is kept.
strippedPathKeepsEqual(source, destination, stripComponents) ==
    LET components == Split(source) IN
    IF Len(components) < stripComponents THEN [empty |-> TRUE, path |-> <<>>]
    ELSE [empty |-> FALSE,
          path |-> Join(destination \o
                        SubSeq(components, stripComponents + 1, Len(components)))]

\* Crush.strippedPath: empty is the "" the code returns for an entry to skip.
strippedPath(source, destination, stripComponents) ==
    LET components == Split(source) IN
    IF Len(components) <= stripComponents THEN [empty |-> TRUE, path |-> <<>>]
    ELSE [empty |-> FALSE,
          path |-> Join(destination \o
                        SubSeq(components, stripComponents + 1, Len(components)))]

\* The destination tree is a function from the paths that exist to what they
\* hold: a directory, a file of bytes (Blob) or a symbolic link.
Link(target) == [kind |-> "link", target |-> target]
Has(tree, path) == path \in DOMAIN tree
Put(tree, path, content) == (path :> content) @@ tree

\* What opening or stat-ing a path reaches: the target of a link, else the path.
Follow(tree, path) ==
    IF Has(tree, path) /\ tree[path].kind = "link"
    THEN Join(Dir(path) \o Split(tree[path].target))
    ELSE path

\* os.Stat(path) succeeds and reports a directory.
IsDirectory(tree, path) ==
    LET q == Follow(tree, path) IN
    q = Destination \/ (Has(tree, q) /\ tree[q].kind = "dir")

\* os.MkdirAll on the destination tree: a path that exists must be a directory;
\* otherwise the parent is made first.  Directories made before a failure stay.
RECURSIVE CrushMkdirAll(_, _)
CrushMkdirAll(tree, path) ==
    IF IsDirectory(tree, path) THEN [err |-> "", tree |-> tree]
    ELSE IF Has(tree, path) THEN [err |-> "mkdir", tree |-> tree]
    ELSE LET made == CrushMkdirAll(tree, Dir(path)) IN
         IF made.err # "" THEN made
         ELSE [err |-> "", tree |-> Put(made.tree, path, Directory)]

\* Crush.writeFile: source is what the reader yields, its bytes and whether it
\* yields them all.  OpenFile creates or truncates the file before the copy.
writeFile(tree, source, path) ==
    LET made == CrushMkdirAll(tree, Dir(path))
        file == Follow(made.tree, path)
    IN  IF made.err # "" THEN [err |-> "mkdir", tree |-> made.tree]
        ELSE IF IsDirectory(made.tree, path) \/ ~IsDirectory(made.tree, Dir(file))
        THEN [err |-> "open", tree |-> made.tree]
        ELSE IF ~source.complete
        THEN [err |-> "copy", tree |-> Put(made.tree, file, Blob(Prefix(source.bytes)))]
        ELSE [err |-> "", tree |-> Put(made.tree, file, Blob(source.bytes))]

\* As writeSymlink, but the link is given the cleaned form of its target.
writeSymlinkCleaned(tree, oldName, newName) ==
    LET made == CrushMkdirAll(tree, Dir(newName)) IN
    IF made.err # "" THEN [err |-> "mkdir", tree |-> made.tree]
    ELSE IF newName = Destination \/ Has(made.tree, newName)
    THEN [err |-> "symlink", tree |-> made.tree]
    ELSE [err |-> "", tree |-> Put(made.tree, newName, Link(Join(Split(oldName))))]

\* Crush.writeSymlink: os.Symlink fails when newName exists.
writeSymlink(tree, oldName, newName) ==
    LET made == CrushMkdirAll(tree, Dir(newName)) IN
    IF made.err # "" THEN [err |-> "mkdir", tree |-> made.tree]
    ELSE IF newName = Destination \/ Has(made.tree, newName)
    THEN [err |-> "symlink", tree |-> made.tree]
    ELSE [err |-> "", tree |-> Put(made.tree, newName, Link(oldName))]

(***************************************************************************)
(* crush: archives and ExtractTar, ExtractZip                              *)
(***************************************************************************)

\* An archive entry: its header (Name, Typeflag, Linkname) and its data.
Entry(name, typeflag, linkname, bytes) ==
    [Name |-> name, Typeflag |-> typeflag, Linkname |-> linkname, bytes |-> bytes]

\* "a/", "a/b/c.txt", "x.txt", the link "a/l" to "b", and a file "a/b".
DirA == Entry(<<"a", "/">>, "dir", <<>>, "")
FileABC == Entry(<<"a", "/", "b", "/", "c", ".", "t", "x", "t">>, "file", <<>>, "b1")
FileX == Entry(<<"x", ".", "t", "x", "t">>, "file", <<>>, "b2")
LinkAL == Entry(<<"a", "/", "l">>, "link", <<"b">>, "")
FileAB == Entry(<<"a", "/", "b">>, "file", <<>>, "b2")
\* The link "l" to "./../b", which is outside the destination.
LinkUp == Entry(<<"l">>, "link", <<".", "/", ".", ".", "/", "b">>, "")

\* The entry sequences of the archives explored: the layouts of a packaged
\* directory, and sequences whose entries collide with one another.
ArchiveEntries ==
    {<<>>,
     <<DirA, FileABC, FileX>>,
     <<FileX, FileABC>>,
     <<FileAB, FileABC>>,
     <<FileABC, FileAB>>,
     <<DirA, LinkAL, LinkAL>>,
     <<LinkAL, FileABC, FileX>>,
     <<FileABC, FileABC>>,
     <<LinkUp>>}

\* A source to read an archive from: its entries, and where the stream is
\* damaged.  breakAt = 0: nowhere; breakAt = k: in entry k, in its data when
\* inData, else in its header; breakAt = Len(entries) + 1: behind the last
\* entry (for a zip, the central directory).
Sources ==
    UNION {{[entries |-> a, breakAt |-> k, inData |-> FALSE] : k \in 0..(Len(a) + 1)}
           \cup {[entries |-> a, breakAt |-> k, inData |-> TRUE] :
                    k \in {i \in 1..Len(a) : a[i].Typeflag = "file"}} :
           a \in ArchiveEntries}

DataBroken(source, i) ==
    /\ i >= 1 /\ i <= Len(source.entries)
    /\ source.breakAt = i /\ source.inData
    /\ source.entries[i].Typeflag = "file"

HeaderBroken(source, i) == source.breakAt = i /\ ~DataBroken(source, i)

\* As NextFails, but damage is taken for the end of the archive's entries.
NextNeverFails(source, i) == FALSE

\* tar.Reader.Next fails on a damaged header, and on the damaged data of the
\* entry before when that data was not read but has to be passed over.
NextFails(source, i) == HeaderBroken(source, i) \/ DataBroken(source, i - 1)

\* One more line of the log of an extraction: the entry, the path it was
\* given and what was done with it.
Did(done, i, act, path) == Append(done, [entry |-> i, act |-> act, path |-> path])

\* The loop of ExtractTar from the i-th call of t.Next() on.
RECURSIVE ExtractTarFrom(_, _, _, _, _)
ExtractTarFrom(tree, source, stripComponents, i, done) ==
    IF NextFails(source, i) THEN [err |-> "read", tree |-> tree, done |-> done]
    ELSE IF i > Len(source.entries) THEN [err |-> "", tree |-> tree, done |-> done]
    ELSE
      LET f == source.entries[i]
          target == strippedPath(f.Name, Destination, stripComponents)
          r == CASE f.Typeflag = "dir" -> CrushMkdirAll(tree, target.path)
                 [] f.Typeflag = "link" -> writeSymlink(tree, f.Linkname, target.path)
                 [] OTHER -> writeFile(tree, [bytes |-> f.bytes,
                                              complete |-> ~DataBroken(source, i)],
                                       target.path)
      IN  IF target.empty
          THEN ExtractTarFrom(tree, source, stripComponents, i + 1,
                              Did(done, i, "skip", <<>>))
          ELSE IF r.err # ""
          THEN [err |-> r.err, tree |-> r.tree,
                done |-> Did(done, i, f.Typeflag, target.path)]
          ELSE ExtractTarFrom(r.tree, source, stripComponents, i + 1,
                              Did(done, i, f.Typeflag, target.path))

\* Crush.ExtractTar
ExtractTar(tree, source, stripComponents) ==
    ExtractTarFrom(tree, source, stripComponents, 1, <<>>)

\* zip: FileInfo().IsDir() is true for a name that ends with the separator.
ZipIsDir(f) == Len(f.Name) > 0 /\ f.Name[Len(f.Name)] = Separator

\* The loop of ExtractZip over z.File.  Every entry that is not a directory is
\* written as a file, a link too; file.Open fails on a damaged entry header.
RECURSIVE ExtractZipFrom(_, _, _, _, _)
ExtractZipFrom(tree, source, stripComponents, i, done) ==
    IF i > Len(source.entries) THEN [err |-> "", tree |-> tree, done |-> done]
    ELSE
      LET f == source.entries[i]
          target == strippedPath(f.Name, Destination, stripComponents)
          r == IF ZipIsDir(f) THEN CrushMkdirAll(tree, target.path)
               ELSE IF HeaderBroken(source, i) THEN [err |-> "open-entry", tree |-> tree]
               ELSE writeFile(tree, [bytes |-> f.bytes,
                                     complete |-> ~DataBroken(source, i)],
                              target.path)
      IN  IF target.empty
          THEN ExtractZipFrom(tree, source, stripComponents, i + 1,
                              Did(done, i, "skip", <<>>))
          ELSE IF r.err # ""
          THEN [err |-> r.err, tree |-> r.tree,
                done |-> Did(done, i, IF ZipIsDir(f) THEN "dir" ELSE "file", target.path)]
          ELSE ExtractZipFrom(r.tree, source, stripComponents, i + 1,
                              Did(done, i, IF ZipIsDir(f) THEN "dir" ELSE "file",
                                  target.path))

\* Crush.ExtractZip: zip.NewReader reads the central directory first.
ExtractZip(tree, source, stripComponents) ==
    IF source.breakAt = Len(source.entries) + 1
    THEN [err |-> "zip", tree |-> tree, done |-> <<>>]
    ELSE ExtractZipFrom(tree, source, stripComponents, 1, <<>>)

(***************************************************************************)
(* crush: CreateTar, CreateTarGz                                           *)
(***************************************************************************)

\* The characters of the names found in directories, and their byte values.
Chars(name) ==
    CASE name = "a" -> <<"a">>
      [] name = "b" -> <<"b">>
      [] name = "l" -> <<"l">>
      [] name = "y" -> <<"y">>
      [] name = "r" -> <<"r">>
      [] name = "s" -> <<"s">>
      [] name = "c.txt" -> <<"c", ".", "t", "x", "t">>
      [] name = "x.txt" -> <<"x", ".", "t", "x", "t">>
      [] name = "y.txt" -> <<"y", ".", "t", "x", "t">>
      [] name = "z.txt" -> <<"z", ".", "t", "x", "t">>
      [] OTHER -> <<>>

Code(char) ==
    CASE char = "." -> 46
      [] char = "/" -> 47
      [] char = "a" -> 97
      [] char = "b" -> 98
      [] char = "c" -> 99
      [] char = "l" -> 108
      [] char = "r" -> 114
      [] char = "s" -> 115
      [] char = "t" -> 116
      [] char = "x" -> 120
      [] char = "y" -> 121
      [] char = "z" -> 122
      [] OTHER -> 0

\* s < t for two strings, byte by byte.
RECURSIVE StringLess(_, _)
StringLess(s, t) ==
    IF t = <<>> THEN FALSE
    ELSE IF s = <<>> THEN TRUE
    ELSE IF Code(Head(s)) # Code(Head(t)) THEN Code(Head(s)) < Code(Head(t))
    ELSE StringLess(Tail(s), Tail(t))

\* The string of a path: its elements joined by the separator.
RECURSIVE PathString(_)
PathString(path) ==
    IF path = <<>> THEN <<>>
    ELSE IF Len(path) = 1 THEN Chars(path[1])
    ELSE Chars(path[1]) \o <<Separator>> \o PathString(Tail(path))

\* filepath.Walk visits a directory before its content and the names of a
\* directory in the order of their strings: p is visited before q.
RECURSIVE WalkBefore(_, _)
WalkBefore(p, q) ==
    IF p = <<>> THEN q # <<>>
    ELSE IF q = <<>> THEN FALSE
    ELSE IF Head(p) # Head(q) THEN StringLess(Chars(Head(p)), Chars(Head(q)))
    ELSE WalkBefore(Tail(p), Tail(q))

\* A file that cannot be opened, and a directory that cannot be read.
Locked(bytes) == [kind |-> "locked", bytes |-> bytes]
LockedDirectory == [kind |-> "lockeddir"]

\* The paths below a directory that cannot be read are never visited.
Visited(tree) ==
    {p \in DOMAIN tree :
        \A n \in 1..(Len(p) - 1) : tree[SubSeq(p, 1, n)].kind # "lockeddir"}

\* The rest of the paths is bound as an element of a set, so that it is
\* evaluated once.
RECURSIVE InWalkOrder(_)
InWalkOrder(paths) ==
    IF paths = {} THEN <<>>
    ELSE LET first == CHOOSE p \in paths : \A q \in paths \ {p} : WalkBefore(p, q)
         IN  CHOOSE order \in {<<first>> \o InWalkOrder(rest) : rest \in {paths \ {first}}} :
                TRUE

\* The paths filepath.Walk hands to its function, below the root, in order.
Walk(tree) == InWalkOrder(Visited(tree))

\* filepath.Rel(source, path) as the entry name, "/" appended for a directory.
EntryName(path, isDir) == PathString(path) \o (IF isDir THEN <<Separator>> ELSE <<>>)

\* The destination writer: room is the number of writes it accepts.  Through
\* a gzip.Writer the first write puts the gzip header on the destination and
\* everything else stays in the compressor until Close.
Accepts(writer, used) == IF writer.gz THEN writer.room >= 1 ELSE writer.room > used

\* The walk of CreateTar from the i-th path on: out is what was written, used
\* the number of writes made, writing the state of the tar.Writer: "broke"
\* after a failed write, "owed" when the data a header announced is missing.
\* The header of a symbolic link comes from tar.FileInfoHeader(info,
\* info.Name()): its Linkname is the name of the link and its size 0; os.Open
\* then opens what the link points at, and io.Copy fails on a directory and
\* on any content, since the entry has no room for data.
RECURSIVE CreateTarFrom(_, _, _, _, _, _)
CreateTarFrom(tree, order, i, writer, out, used) ==
    IF i > Len(order) THEN [err |-> "", out |-> out, used |-> used, writing |-> "ok"]
    ELSE
      LET path == order[i]
          info == tree[path]
          isDir == info.kind \in {"dir", "lockeddir"}
          isLink == info.kind = "link"
          h == Entry(EntryName(path, isDir),
                     IF isDir THEN "dir" ELSE IF isLink THEN "link" ELSE "file",
                     IF isLink THEN Chars(path[Len(path)]) ELSE <<>>,
                     IF isDir \/ isLink THEN "" ELSE info.bytes)
          opened == Follow(tree, path)
          Stop(err, writing) ==
              [err |-> err, out |-> Append(out, [h EXCEPT !.bytes = ""]),
               used |-> used + 1, writing |-> writing]
      IN  IF ~Accepts(writer, used)
          THEN [err |-> "header", out |-> out, used |-> used, writing |-> "broke"]
          ELSE IF info.kind = "lockeddir" THEN Stop("walk", "ok")
          ELSE IF isDir
          THEN CreateTarFrom(tree, order, i + 1, writer, Append(out, h), used + 1)
          ELSE IF isLink
          THEN IF opened = <<>> THEN Stop("copy", "ok")
               ELSE IF ~Has(tree, opened) \/ tree[opened].kind \in {"locked", "lockeddir"}
               THEN Stop("open", "ok")
               ELSE IF tree[opened].kind = "blob" /\ tree[opened].bytes = ""
               THEN CreateTarFrom(tree, order, i + 1, writer, Append(out, h), used + 1)
               ELSE Stop("copy", "ok")
          ELSE IF info.kind = "locked"
          THEN Stop("open", IF info.bytes = "" THEN "ok" ELSE "owed")
          ELSE IF info.kind = "faulty" THEN Stop("copy", "owed")
          ELSE IF ~Accepts(writer, used + 1) THEN Stop("copy", "broke")
          ELSE CreateTarFrom(tree, order, i + 1, writer, Append(out, h), used + 2)

\* CreateTar onto a writer.  The deferred t.Close() ends the archive: it fails
\* after a failed write, with a file whose data is missing, and when its own
\* write fails; closed tells whether the end was written, dropped is the
\* error of Close, which is not looked at.
CreateTarTo(tree, writer) ==
    LET walked == CreateTarFrom(tree, Walk(tree), 1, writer, <<>>, 0)
        dropped == IF walked.writing = "broke" THEN "write"
                   ELSE IF walked.writing = "owed" THEN "missed"
                   ELSE IF ~Accepts(writer, walked.used) THEN "write"
                   ELSE ""
    IN  [err |-> walked.err, out |-> walked.out, closed |-> dropped = "",
         dropped |-> dropped]

\* Crush.CreateTar
CreateTar(source, room) == CreateTarTo(source, [room |-> room, gz |-> FALSE])

\* Crush.CreateTarGz: the deferred gz.Close() writes the compressed archive; it
\* fails when a write failed before and when its own write fails, and its error
\* is not looked at.  out is what the destination can be decompressed to.
CreateTarGz(source, room) ==
    LET t == CreateTarTo(source, [room |-> room, gz |-> TRUE])
        dropped == IF room < 2 THEN "write" ELSE t.dropped
    IN  [err |-> t.err, out |-> IF room < 2 THEN <<>> ELSE t.out,
         closed |-> room >= 2 /\ t.closed, dropped |-> dropped]

(***************************************************************************)
(* The specification of crush                                              *)
(***************************************************************************)

\* A packaged directory, the same with a file that cannot be opened, and with
\* a directory that cannot be read.
Packaged ==
    (<<"a">> :> Directory) @@ (<<"a", "b">> :> Directory)
    @@ (<<"a", "b", "c.txt">> :> Blob("b1")) @@ (<<"x.txt">> :> Blob("b2"))

\* A directory with the empty file a/b and the symbolic link a/l to it.
LinkedEmpty ==
    (<<"a">> :> Directory) @@ (<<"a", "b">> :> Blob(""))
    @@ (<<"a", "l">> :> Link(<<"b">>))

\* The source directories: also with a link to a file with content.
SourceTrees ==
    {NoTree, Packaged, LinkedEmpty,
     (<<"x.txt">> :> Locked("b2")) @@ Packaged,
     (<<"a", "b">> :> LockedDirectory) @@ Packaged,
     (<<"l">> :> Link(<<"x", ".", "t", "x", "t">>)) @@ Packaged}

\* The destination before a call: empty, or holding an earlier extraction.
DestinationTrees ==
    {NoTree, ExtractTar(NoTree, Intact(<<LinkAL, FileABC, FileX>>), 0).tree}

InitCrush ==
    /\ perm = EmptyTree
    /\ eph = EmptyTree
    /\ call = NoCall
    /\ calls = 0
    /\ constructed = NoConstruct
    /\ procs = <<>>
    /\ resolver = NoResolver
    /\ resolved = NoResolve
    /\ probed = NoAny
    /\ dest \in DestinationTrees
    /\ extracted = NoExtract
    /\ tarred = NoTar
    /\ ops = 0
    /\ root = NoRoot
    /\ units = <<>>
    /\ listing = NoListing
    /\ layer = ZeroLayer
    /\ layerDir = NoLayerDir
    /\ contributed = NoContribute

ExtractTarCall(source, stripComponents) ==
    LET r == ExtractTar(dest, source, stripComponents) IN
    /\ ops < MaxOps
    /\ ops' = ops + 1
    /\ dest' = r.tree
    /\ extracted' = [called |-> TRUE, format |-> "tar", source |-> source,
                     stripComponents |-> stripComponents, err |-> r.err, done |-> r.done]
    /\ UNCHANGED <<layerVars, cacheVars, resolverVars, tarred, listingVars>>

ExtractZipCall(source, stripComponents) ==
    LET r == ExtractZip(dest, source, stripComponents) IN
    /\ ops < MaxOps
    /\ ops' = ops + 1
    /\ dest' = r.tree
    /\ extracted' = [called |-> TRUE, format |-> "zip", source |-> source,
                     stripComponents |-> stripComponents, err |-> r.err, done |-> r.done]
    /\ UNCHANGED <<layerVars, cacheVars, resolverVars, tarred, listingVars>>

CreateTarCall(source, room) ==
    LET r == CreateTar(source, room) IN
    /\ ops < MaxOps
    /\ ops' = ops + 1
    /\ tarred' = [called |-> TRUE, gz |-> FALSE, source |-> source, room |-> room,
                  err |-> r.err, out |-> r.out, closed |-> r.closed, dropped |-> r.dropped]
    /\ UNCHANGED <<layerVars, cacheVars, resolverVars, dest, extracted, listingVars>>

CreateTarGzCall(source, room) ==
    LET r == CreateTarGz(source, room) IN
    /\ ops < MaxOps
    /\ ops' = ops + 1
    /\ tarred' = [called |-> TRUE, gz |-> TRUE, source |-> source, room |-> room,
                  err |-> r.err, out |-> r.out, closed |-> r.closed, dropped |-> r.dropped]
    /\ UNCHANGED <<layerVars, cacheVars, resolverVars, dest, extracted, listingVars>>

NextCrush ==
    \/ \E source \in Sources, stripComponents \in 0..MaxStrip :
          ExtractTarCall(source, stripComponents) \/ ExtractZipCall(source, stripComponents)
    \/ \E source \in SourceTrees, room \in 0..MaxRoom :
          CreateTarCall(source, room) \/ CreateTarGzCall(source, room)

SpecCrush == InitCrush /\ [][NextCrush]_vars

(***************************************************************************)
(* The specification of a CreateTar followed by an ExtractTar              *)
(***************************************************************************)

\* Source directories to pack and unpack: those of SourceTrees, a single
\* file, a single directory, and a directory with an empty file.
RoundTripTrees ==
    SourceTrees
    \cup {(<<"x.txt">> :> Blob("b2")),
          (<<"a">> :> Directory),
          (<<"a">> :> Directory) @@ (<<"a", "b">> :> Blob(""))}

InitRoundTrip ==
    /\ perm = EmptyTree
    /\ eph = EmptyTree
    /\ call = NoCall
    /\ calls = 0
    /\ constructed = NoConstruct
    /\ procs = <<>>
    /\ resolver = NoResolver
    /\ resolved = NoResolve
    /\ probed = NoAny
    /\ dest = NoTree
    /\ extracted = NoExtract
    /\ tarred = NoTar
    /\ ops = 0
    /\ root = NoRoot
    /\ units = <<>>
    /\ listing = NoListing
    /\ layer = ZeroLayer
    /\ layerDir = NoLayerDir
    /\ contributed = NoContribute

\* ExtractTar into the empty destination, reading the archive that the
\* CreateTar call before has written completely.
ExtractTarredCall(stripComponents) ==
    LET source == Intact(tarred.out)
        r == ExtractTar(dest, source, stripComponents)
    IN  /\ tarred.called /\ ~tarred.gz
        /\ tarred.err = "" /\ tarred.closed
        /\ ~extracted.called
        /\ dest' = r.tree
        /\ extracted' = [called |-> TRUE, format |-> "tar", source |-> source,
                         stripComponents |-> stripComponents, err |-> r.err,
                         done |-> r.done]
        /\ UNCHANGED <<layerVars, cacheVars, resolverVars, tarred, ops, listingVars>>

NextRoundTrip ==
    \/ \E source \in RoundTripTrees, room \in 0..MaxRoom : CreateTarCall(source, room)
    \/ \E stripComponents \in 0..MaxStrip : ExtractTarredCall(stripComponents)

SpecRoundTrip == InitRoundTrip /\ [][NextRoundTrip]_vars

(***************************************************************************)
(* sherpa: NewFileListing                                                  *)
(***************************************************************************)

\* A file that opens but whose content cannot be read to the end.
Faulty(bytes) == [kind |-> "faulty", bytes |-> bytes]

\* info.Mode().String() and info.ModTime().Format(time.RFC3339) of a path.
ModeString(info) ==
    IF info.kind \in {"dir", "lockeddir"} THEN "drwxr-xr-x" ELSE "-rw-r--r--"
ModTimeString(info) == "2020-01-01T00:00:00Z"

\* type FileEntry; its zero value is what a result carries next to an error.
FileEntry(path, mode, modificationTime, sha256) ==
    [Path |-> path, Mode |-> mode, ModificationTime |-> modificationTime,
     SHA256 |-> sha256]
ZeroFileEntry == FileEntry(<<>>, "", "", "")

\* An error of NewFileListing: what failed, and on which path.
ListingError(op, path) == [op |-> op, path |-> path]

\* type result
Result(value, err) == [value |-> value, err |-> err]

\* The path the walk function is given, as a string: root joined with the
\* path below it.
Walked(dir, path) == PathString(<<dir>> \o path)

\* As UnitResult, but no entry is given a digest.
UnitResultNoDigest(dir, tree, path) ==
    LET info == tree[path] IN
    IF info.kind = "locked" THEN Result(ZeroFileEntry, ListingError("open", path))
    ELSE IF info.kind = "faulty" THEN Result(ZeroFileEntry, ListingError("hash", path))
    ELSE Result(FileEntry(Walked(dir, path), ModeString(info), ModTimeString(info), ""),
                NoListingError)

\* What the unit of a path sends: the body of the go func up to its send.
UnitResult(dir, tree, path) ==
    LET info == tree[path]
        e == FileEntry(Walked(dir, path), ModeString(info), ModTimeString(info), "")
    IN  IF info.kind \in {"dir", "lockeddir"} THEN Result(e, NoListingError)
        ELSE IF info.kind = "locked"
        THEN Result(ZeroFileEntry, ListingError("open", path))
        ELSE IF info.kind = "faulty"
        THEN Result(ZeroFileEntry, ListingError("hash", path))
        ELSE Result([e EXCEPT !.SHA256 = Sha256(info.bytes)], NoListingError)

\* As pathLess, but no entry is ever before another.
pathLessNever(a, b) == FALSE

\* The less function NewFileListing hands to sort.Slice.
pathLess(a, b) == StringLess(a.Path, b.Path)

RECURSIVE SinkByPath(_, _)
SinkByPath(seq, j) ==
    IF j > 1 /\ pathLess(seq[j], seq[j - 1])
    THEN SinkByPath(Swap(seq, j, j - 1), j - 1)
    ELSE seq

\* sort.Slice on a slice of fewer than 12 elements is an insertion sort.  The
\* slice after a pass is bound as an element of a set, so that it is
\* evaluated once.
RECURSIVE SortByPath(_, _)
SortByPath(seq, i) ==
    IF i > Len(seq) THEN seq
    ELSE CHOOSE sorted \in {SortByPath(sunk, i + 1) : sunk \in {SinkByPath(seq, i)}} : TRUE

(***************************************************************************)
(* The specification of NewFileListing                                     *)
(***************************************************************************)

\* The tree {x.txt, y/z.txt}; the same with a file y.txt, which the walk
\* visits after y/z.txt and whose path string is before it; with files that
\* cannot be opened or read; and with a directory that cannot be read.
TreeXYZ ==
    (<<"x.txt">> :> Blob("b1")) @@ (<<"y">> :> Directory)
    @@ (<<"y", "z.txt">> :> Blob("b2"))

ListingTrees ==
    {NoTree, TreeXYZ,
     (<<"y.txt">> :> Blob("b1")) @@ TreeXYZ,
     (<<"x.txt">> :> Locked("b1")) @@ TreeXYZ,
     (<<"y", "z.txt">> :> Faulty("b2")) @@ TreeXYZ,
     (<<"x.txt">> :> Locked("b1")) @@ (<<"y", "z.txt">> :> Faulty("b2")) @@ TreeXYZ,
     (<<"y">> :> LockedDirectory) @@ (<<"y.txt">> :> Blob("b1")) @@ TreeXYZ,
     (<<"x.txt">> :> Locked("b1")) @@ (<<"y">> :> LockedDirectory) @@ TreeXYZ}

\* The same trees are found under two roots.
RootDirs == {"r", "s"}

\* The state of a unit: not started, running, blocked in its send, finished.
Unit(state, r) == [state |-> state, r |-> r]
NoResult == Result(ZeroFileEntry, NoListingError)

InitListing ==
    /\ perm = EmptyTree
    /\ eph = EmptyTree
    /\ call = NoCall
    /\ calls = 0
    /\ constructed = NoConstruct
    /\ procs = <<>>
    /\ resolver = NoResolver
    /\ resolved = NoResolve
    /\ probed = NoAny
    /\ dest = NoTree
    /\ extracted = NoExtract
    /\ tarred = NoTar
    /\ ops = 0
    /\ root \in {[dir |-> d, tree |-> t] : d \in RootDirs, t \in ListingTrees}
    /\ units = [p \in DOMAIN root.tree |-> Unit("idle", NoResult)]
    /\ listing = [NoListing EXCEPT !.pc = "walk"]
    /\ layer = ZeroLayer
    /\ layerDir = NoLayerDir
    /\ contributed = NoContribute

\* The paths filepath.Walk hands to the walk function, in order.
WalkOrder == Walk(root.tree)

\* The walk has just handed over a directory that cannot be read: the next
\* call of the walk function carries the error.
WalkFailing ==
    /\ listing.visited >= 1
    /\ root.tree[WalkOrder[listing.visited]].kind = "lockeddir"

\* As WalkFn, but no unit is started for a directory.
WalkFnSkipsDirectories ==
    /\ listing.pc = "walk"
    /\ listing.visited < Len(WalkOrder)
    /\ ~WalkFailing
    /\ units' = IF root.tree[WalkOrder[listing.visited + 1]].kind = "dir"
                THEN [units EXCEPT ![WalkOrder[listing.visited + 1]] = Unit("done", NoResult)]
                ELSE [units EXCEPT ![WalkOrder[listing.visited + 1]] =
                                       Unit("running", NoResult)]
    /\ listing' = [listing EXCEPT !.visited = @ + 1]
    /\ UNCHANGED <<layerVars, cacheVars, resolverVars, crushVars, root>>

\* The walk function with err == nil on a path below root: wg.Add(1) and go.
WalkFn ==
    /\ listing.pc = "walk"
    /\ listing.visited < Len(WalkOrder)
    /\ ~WalkFailing
    /\ units' = [units EXCEPT ![WalkOrder[listing.visited + 1]] = Unit("running", NoResult)]
    /\ listing' = [listing EXCEPT !.visited = @ + 1]
    /\ UNCHANGED <<layerVars, cacheVars, resolverVars, crushVars, root>>

\* The walk function with err != nil: Walk and NewFileListing return the error.
WalkFnError ==
    /\ listing.pc = "walk"
    /\ WalkFailing
    /\ listing' = [listing EXCEPT !.pc = "returned",
                      !.err = ListingError("walk", WalkOrder[listing.visited]),
                      !.value = NilSlice]
    /\ UNCHANGED <<layerVars, cacheVars, resolverVars, crushVars, root, units>>

\* filepath.Walk returns nil: the closing goroutine is started and the
\* receiving loop entered.
WalkReturns ==
    /\ listing.pc = "walk"
    /\ listing.visited = Len(WalkOrder)
    /\ ~WalkFailing
    /\ listing' = [listing EXCEPT !.pc = "range", !.closer = "waiting"]
    /\ UNCHANGED <<layerVars, cacheVars, resolverVars, crushVars, root, units>>

\* The goroutine of a path runs up to its send on ch.
UnitRun(path) ==
    /\ units[path].state = "running"
    /\ units' = [units EXCEPT ![path] = Unit("sending", UnitResult(root.dir, root.tree, path))]
    /\ UNCHANGED <<layerVars, cacheVars, resolverVars, crushVars, root, listing>>

\* fmt.Errorf("unable to create file listing: %s", r.err)
ListingFailed(err) == ListingError("listing: " \o err.op, err.path)

\* As Receive, but a result that carries an error is dropped and the loop goes on.
ReceiveDropsErrors(path) ==
    /\ listing.pc = "range"
    /\ units[path].state = "sending"
    /\ units' = [units EXCEPT ![path] = Unit("done", @.r)]
    /\ listing' = IF units[path].r.err # NoListingError
                  THEN listing
                  ELSE [listing EXCEPT !.e = Append(@, units[path].r.value)]
    /\ UNCHANGED <<layerVars, cacheVars, resolverVars, crushVars, root>>

\* ch is not buffered: a send completes when the loop `for r := range ch`
\* receives it; the unit then ends (wg.Done) and the loop handles r.
Receive(path) ==
    /\ listing.pc = "range"
    /\ units[path].state = "sending"
    /\ units' = [units EXCEPT ![path] = Unit("done", @.r)]
    /\ listing' = IF units[path].r.err # NoListingError
                  THEN [listing EXCEPT !.pc = "returned",
                                       !.err = ListingFailed(units[path].r.err),
                                       !.value = NilSlice]
                  ELSE [listing EXCEPT !.e = Append(@, units[path].r.value)]
    /\ UNCHANGED <<layerVars, cacheVars, resolverVars, crushVars, root>>

\* The closing goroutine: wg.Wait() returns when every unit has ended; close(ch).
Close ==
    /\ listing.closer = "waiting"
    /\ \A p \in DOMAIN units : units[p].state = "done"
    /\ listing' = [listing EXCEPT !.closer = "closed"]
    /\ UNCHANGED <<layerVars, cacheVars, resolverVars, crushVars, root, units>>

\* The loop ends on the closed channel: sort.Slice and return e, nil.
RangeEnds ==
    /\ listing.pc = "range"
    /\ listing.closer = "closed"
    /\ listing' = [listing EXCEPT !.pc = "returned",
                      !.value = IF listing.e = <<>> THEN NilSlice
                                ELSE SliceOf(SortByPath(listing.e, 2))]
    /\ UNCHANGED <<layerVars, cacheVars, resolverVars, crushVars, root, units>>

NextListing ==
    \/ WalkFn
    \/ WalkFnError
    \/ WalkReturns
    \/ \E path \in DOMAIN units : UnitRun(path)
    \/ \E path \in DOMAIN units : Receive(path)
    \/ Close
    \/ RangeEnds

SpecListing == InitListing /\ [][NextListing]_vars

\* The paths of the trees explored.
ListingPaths == UNION {DOMAIN tree : tree \in ListingTrees}

\* The steps of the caller: the walk, and the loop that receives.
Caller ==
    \/ WalkFn
    \/ WalkFnError
    \/ WalkReturns
    \/ \E path \in DOMAIN units : Receive(path)
    \/ RangeEnds

\* The Go scheduler lets every goroutine that is not blocked take its next
\* step: the caller, the closing goroutine and each unit.
FairListing ==
    /\ SpecListing
    /\ WF_vars(Caller)
    /\ WF_vars(Close)
    /\ \A path \in ListingPaths : WF_vars(path \in DOMAIN units /\ UnitRun(path))

(***************************************************************************)
(* NewDependencyCache                                                      *)
(***************************************************************************)

\* A string is the sequence of its characters.  strings.Join of the elements
\* that are not empty, with the separator between them.
RECURSIVE JoinSeparated(_)
JoinSeparated(elems) ==
    IF elems = <<>> THEN <<>>
    ELSE IF Len(elems) = 1 THEN elems[1]
    ELSE elems[1] \o <<Separator>> \o JoinSeparated(Tail(elems))

\* The components of a string between its separators.
RECURSIVE ComponentsFrom(_, _, _, _)
ComponentsFrom(str, i, components, current) ==
    IF i > Len(str) THEN Append(components, current)
    ELSE IF str[i] = Separator
    THEN ComponentsFrom(str, i + 1, Append(components, current), <<>>)
    ELSE ComponentsFrom(str, i + 1, components, Append(current, str[i]))

\* filepath.Clean: empty and "." components vanish, ".." removes the component
\* before it and vanishes at the root; an empty result is ".".
RECURSIVE CleanComponents(_, _, _, _)
CleanComponents(components, i, out, rooted) ==
    IF i > Len(components) THEN out
    ELSE IF components[i] \in {<<>>, <<".">>}
    THEN CleanComponents(components, i + 1, out, rooted)
    ELSE IF components[i] = <<".", ".">>
    THEN IF out # <<>> /\ out[Len(out)] # <<".", ".">>
         THEN CleanComponents(components, i + 1, SubSeq(out, 1, Len(out) - 1), rooted)
         ELSE IF rooted THEN CleanComponents(components, i + 1, out, rooted)
         ELSE CleanComponents(components, i + 1, Append(out, components[i]), rooted)
    ELSE CleanComponents(components, i + 1, Append(out, components[i]), rooted)

Clean(str) ==
    IF str = <<>> THEN <<".">>
    ELSE LET rooted == str[1] = Separator
             body == JoinSeparated(CleanComponents(ComponentsFrom(str, 1, <<>>, <<>>),
                                                   1, <<>>, rooted))
         IN  IF rooted THEN <<Separator>> \o body
             ELSE IF body = <<>> THEN <<".">> ELSE body

\* filepath.Join(elem...)
filepathJoin(elems) ==
    LET given == SelectSeq(elems, LAMBDA e : e # <<>>) IN
    IF given = <<>> THEN <<>> ELSE Clean(JoinSeparated(given))

\* os.TempDir()
TempDir == <<"/", "t", "m", "p">>

\* NewDependencyCache(buildpack); the Logger holds no state.
NewDependencyCache(buildpack) ==
    [CachePath |-> filepathJoin(<<buildpack.Path,
                                  <<"d", "e", "p", "e", "n", "d", "e", "n", "c", "i", "e", "s">>>>),
     DownloadPath |-> TempDir,
     UserAgent |-> filepathJoin(<<<<"%", "s", "/", "%", "s">>, buildpack.ID,
                                   buildpack.Version>>)]

\* The buildpacks a cache is made for: paths, ids (with and without a
\* separator) and versions.
BuildpackPaths ==
    {<<"/", "b">>, <<"/", "c", "/", "d">>, <<"/", "c", "n", "b">>, <<"b">>}
BuildpackIDs == {<<"j">>, <<"j", "d", "k">>, <<"p", "/", "j">>, <<"p", "/", "j", "d", "k">>}
BuildpackVersions ==
    {<<"1">>, <<"1", ".", "0">>, <<"1", ".", "0", ".", "0">>, <<"2", ".", "1", ".", "0">>}
Buildpacks ==
    {[Path |-> path, ID |-> id, Version |-> version] :
        path \in BuildpackPaths, id \in BuildpackIDs, version \in BuildpackVersions}

InitConstruct ==
    /\ perm = EmptyTree
    /\ eph = EmptyTree
    /\ call = NoCall
    /\ calls = 0
    /\ constructed \in {[NoConstruct EXCEPT !.buildpack = b] : b \in Buildpacks}
    /\ procs = <<>>
    /\ resolver = NoResolver
    /\ resolved = NoResolve
    /\ probed = NoAny
    /\ dest = NoTree
    /\ extracted = NoExtract
    /\ tarred = NoTar
    /\ ops = 0
    /\ root = NoRoot
    /\ units = <<>>
    /\ listing = NoListing
    /\ layer = ZeroLayer
    /\ layerDir = NoLayerDir
    /\ contributed = NoContribute

NewDependencyCacheCall ==
    /\ ~constructed.called
    /\ constructed' = [constructed EXCEPT
                          !.called = TRUE,
                          !.cache = NewDependencyCache(constructed.buildpack)]
    /\ UNCHANGED <<layerVars, perm, eph, call, calls, procs, resolverVars, crushVars, listingVars>>

NextConstruct == NewDependencyCacheCall

SpecConstruct == InitConstruct /\ [][NextConstruct]_vars

(***************************************************************************)
(* Concurrent invocations of DependencyCache.Artifact                      *)
(***************************************************************************)

\* Artifact step by step, for invocations that run at the same time against
\* the same two tiers.  Every invocation asks for RaceDependency; each step
\* is one access to the file system or to the origin.
RaceDependency == Dep0

\* What the origin does for a request of an invocation.
RaceResponses ==
    {[kind |-> "error", status |-> 0, body |-> "", complete |-> FALSE],
     [kind |-> "response", status |-> 200, body |-> "b1", complete |-> TRUE]}

\* An invocation: where it is, the `actual` it decoded, the body it got from
\* the origin, what its verification read, and what it returned.
Proc(pc, actual, body, read, err, stream) ==
    [pc |-> pc, actual |-> actual, body |-> body, read |-> read, err |-> err,
     stream |-> stream]
NoRead == "unread"
NewProc == Proc("idle", ZeroDependency, "", NoRead, "", NoFile)

\* An invocation returns.
Returns(p, err, stream) == [p EXCEPT !.pc = "done", !.err = err, !.stream = stream]

InitRace ==
    /\ perm \in {EmptyTree, WithRecord(EmptyTree, RaceDependency, "b1")}
    /\ eph = EmptyTree
    /\ call = NoCall
    /\ calls = 0
    /\ constructed = NoConstruct
    /\ procs = [i \in 1..MaxProcs |-> NewProc]
    /\ resolver = NoResolver
    /\ resolved = NoResolve
    /\ probed = NoAny
    /\ dest = NoTree
    /\ extracted = NoExtract
    /\ tarred = NoTar
    /\ ops = 0
    /\ root = NoRoot
    /\ units = <<>>
    /\ listing = NoListing
    /\ layer = ZeroLayer
    /\ layerDir = NoLayerDir
    /\ contributed = NoContribute

\* The frame of a step of an invocation that writes nothing.
ReadOnly == UNCHANGED <<layerVars, perm, eph, call, calls, constructed, resolverVars, crushVars,
                        listingVars>>
\* The frame of a step of an invocation that writes to the ephemeral tier.
WritesEphemeral == UNCHANGED <<layerVars, perm, call, calls, constructed, resolverVars, crushVars,
                               listingVars>>

\* Decode the sidecar of the permanent tier; on a hit open its artifact.  The
\* permanent tier is not written by anyone.
LookupPermanent(i) ==
    LET dec == DecodeFile(perm, SidecarPath(RaceDependency), ZeroDependency)
        f == Open(perm, ArtifactPath(RaceDependency))
    IN  /\ procs[i].pc = "idle"
        /\ procs' = [procs EXCEPT ![i] =
              IF dec.err = "decode" THEN Returns(@, "decode-permanent", NoFile)
              ELSE IF DeepEqual(RaceDependency, dec.actual)
              THEN Returns(@, f.err, f.stream)
              ELSE [@ EXCEPT !.pc = "lookup", !.actual = dec.actual]]
        /\ ReadOnly

\* Decode the sidecar of the ephemeral tier.
LookupEphemeral(i) ==
    LET dec == DecodeFile(eph, SidecarPath(RaceDependency), procs[i].actual) IN
    /\ procs[i].pc = "lookup"
    /\ procs' = [procs EXCEPT ![i] =
          IF dec.err = "decode" THEN Returns(@, "decode-ephemeral", NoFile)
          ELSE IF DeepEqual(RaceDependency, dec.actual)
          THEN [@ EXCEPT !.pc = "open-ephemeral", !.actual = dec.actual]
          ELSE [@ EXCEPT !.pc = "request", !.actual = dec.actual]]
    /\ ReadOnly

\* The hit in the ephemeral tier: os.Open of the artifact, which the caller
\* then reads.
OpenEphemeral(i) ==
    LET f == Open(eph, ArtifactPath(RaceDependency)) IN
    /\ procs[i].pc = "open-ephemeral"
    /\ procs' = [procs EXCEPT ![i] = Returns(@, f.err, f.stream)]
    /\ ReadOnly

\* download: client.Do and the test of the status.
Request(i, resp) ==
    /\ procs[i].pc = "request"
    /\ procs' = [procs EXCEPT ![i] =
          IF resp.kind = "error" THEN Returns(@, "download:request", NoFile)
          ELSE IF resp.status < StatusMin \/ resp.status > StatusMax
          THEN Returns(@, "download:status", NoFile)
          ELSE [@ EXCEPT !.pc = "create", !.body = resp.body]]
    /\ ReadOnly

\* As Create, but an invocation waits while another one is between the
\* creation of the artifact file and the end of its sidecar write.
CreateExclusive(i) ==
    LET artifact == ArtifactPath(RaceDependency)
        made == MkdirAll(eph, Dir(artifact))
    IN  /\ procs[i].pc = "create"
        /\ \A j \in DOMAIN procs \ {i} :
              procs[j].pc \notin {"copy", "verify", "create-sidecar", "encode"}
        /\ made.err = "" /\ made.tree[artifact].kind # "dir"
        /\ eph' = [made.tree EXCEPT ![artifact] = Blob("")]
        /\ procs' = [procs EXCEPT ![i].pc = "copy"]
        /\ WritesEphemeral

\* download: os.MkdirAll and os.OpenFile with O_CREATE|O_TRUNC, which leaves
\* the artifact file empty.
Create(i) ==
    LET artifact == ArtifactPath(RaceDependency)
        made == MkdirAll(eph, Dir(artifact))
    IN  /\ procs[i].pc = "create"
        /\ IF made.err # ""
           THEN /\ eph' = eph
                /\ procs' = [procs EXCEPT ![i] = Returns(@, "download:mkdir", NoFile)]
           ELSE IF made.tree[artifact].kind = "dir"
           THEN /\ eph' = made.tree
                /\ procs' = [procs EXCEPT ![i] = Returns(@, "download:open", NoFile)]
           ELSE /\ eph' = [made.tree EXCEPT ![artifact] = Blob("")]
                /\ procs' = [procs EXCEPT ![i].pc = "copy"]
        /\ WritesEphemeral

\* download: io.Copy of the body into the file, from the start of the file.
Copy(i) ==
    /\ procs[i].pc = "copy"
    /\ eph' = [eph EXCEPT ![ArtifactPath(RaceDependency)] = Blob(procs[i].body)]
    /\ procs' = [procs EXCEPT ![i].pc = "verify"]
    /\ WritesEphemeral

\* verify: read the artifact file and compare its digest.
Verify(i) ==
    LET artifact == ArtifactPath(RaceDependency)
        bad == verify(eph, artifact, RaceDependency.SHA256)
    IN  /\ procs[i].pc = "verify"
        /\ procs' = [procs EXCEPT ![i] =
              IF bad # ""
              THEN [Returns(@, "verify:" \o bad, NoFile) EXCEPT
                       !.read = ReadAll(eph[artifact])]
              ELSE [@ EXCEPT !.pc = "create-sidecar", !.read = ReadAll(eph[artifact])]]
        /\ ReadOnly

\* os.OpenFile of the sidecar with O_CREATE|O_TRUNC, which leaves it empty.
CreateSidecar(i) ==
    LET file == SidecarPath(RaceDependency) IN
    /\ procs[i].pc = "create-sidecar"
    /\ IF eph[file].kind = "dir"
       THEN /\ eph' = eph
            /\ procs' = [procs EXCEPT ![i] = Returns(@, "open-sidecar", NoFile)]
       ELSE /\ eph' = [eph EXCEPT ![file] = Blob("")]
            /\ procs' = [procs EXCEPT ![i].pc = "encode"]
    /\ WritesEphemeral

\* toml.NewEncoder(out).Encode(dependency)
EncodeSidecar(i) ==
    /\ procs[i].pc = "encode"
    /\ eph' = [eph EXCEPT ![SidecarPath(RaceDependency)] = Encode(RaceDependency)]
    /\ procs' = [procs EXCEPT ![i].pc = "open-download"]
    /\ WritesEphemeral

\* The final os.Open(artifact) of a miss.
OpenDownload(i) ==
    LET f == Open(eph, ArtifactPath(RaceDependency)) IN
    /\ procs[i].pc = "open-download"
    /\ procs' = [procs EXCEPT ![i] = Returns(@, f.err, f.stream)]
    /\ ReadOnly

\* The next step of invocation i.
ProcStep(i) ==
    \/ LookupPermanent(i)
    \/ LookupEphemeral(i)
    \/ OpenEphemeral(i)
    \/ \E resp \in RaceResponses : Request(i, resp)
    \/ Create(i)
    \/ Copy(i)
    \/ Verify(i)
    \/ CreateSidecar(i)
    \/ EncodeSidecar(i)
    \/ OpenDownload(i)

NextRace == \E i \in 1..MaxProcs : ProcStep(i)

SpecRace == InitRace /\ [][NextRace]_vars

(***************************************************************************)
(* LayerContributor and DependencyLayerContributor (layer.go)              *)
(***************************************************************************)

\* The mapstructure tag of each field of BuildpackDependency.
Tag ==
    [ID |-> "id", Name |-> "name", Version |-> "version", URI |-> "uri",
     SHA256 |-> "sha256", Stacks |-> "stacks", Licenses |-> "licenses"]

\* The keys found in layer metadata: the tags, a tag in another case, and a
\* key that no field has.
MetadataKeys == {Tag[f] : f \in FieldNames} \cup {"ID", "stale"}

\* strings.EqualFold over these keys.
ToLower(key) == IF key = "ID" THEN "id" ELSE key
EqualFold(s, t) == ToLower(s) = ToLower(t)

\* A value held in a map[string]interface{}, with its dynamic type.
Value(type, v) == [type |-> type, v |-> v]
FieldType(f) == IF f \in {"Stacks", "Licenses"} THEN "slice" ELSE "string"

\* ExpectedMetadata is a BuildpackDependency or a map[string]interface{}.
Struct(dependency) == [type |-> "struct", v |-> dependency]
Map(m) == [type |-> "map", v |-> m]

\* The key mapstructure reads a field from: the tag itself if the map has it,
\* else a key equal to it but for case.
KeyOf(metadata, f) ==
    IF Tag[f] \in DOMAIN metadata THEN {Tag[f]}
    ELSE {k \in DOMAIN metadata : EqualFold(k, Tag[f])}

\* mapstructure.Decode(layer.Metadata, &actual), actual a new zero value of
\* the type of ExpectedMetadata: a struct gets the fields whose keys are
\* there and fails on a value of another type; a map gets every key.
DecodeMetadata(expected, metadata) ==
    IF expected.type = "map" THEN [err |-> FALSE, actual |-> Map(metadata)]
    ELSE [err |-> \E f \in FieldNames : \E k \in KeyOf(metadata, f) :
                      metadata[k].type # FieldType(f),
          actual |-> Struct([f \in FieldNames |->
                        IF KeyOf(metadata, f) = {} THEN ZeroDependency[f]
                        ELSE metadata[CHOOSE k \in KeyOf(metadata, f) : TRUE].v])]

\* What ExpectedMetadata is as a map: a struct's fields under their tags.
AsMap(expected) ==
    IF expected.type = "map" THEN expected.v
    ELSE [k \in {Tag[f] : f \in FieldNames} |->
             LET f == CHOOSE g \in FieldNames : Tag[g] = k
             IN  Value(FieldType(f), expected.v[f])]

\* mapstructure.Decode(l.ExpectedMetadata, &layer.Metadata): the keys are
\* written into the map that is there, whose other keys stay.
EncodeMetadata(expected, metadata) ==
    [k \in DOMAIN metadata \cup DOMAIN AsMap(expected) |->
        IF k \in DOMAIN AsMap(expected) THEN AsMap(expected)[k] ELSE metadata[k]]

\* os.RemoveAll(layer.Path) and os.MkdirAll(layer.Path, 0755): both need a
\* parent directory whose entries can be changed, unless nothing is to do.
RemoveAll(dir) ==
    IF ~dir.exists THEN [err |-> FALSE, dir |-> dir]
    ELSE IF ~dir.writable THEN [err |-> TRUE, dir |-> dir]
    ELSE [err |-> FALSE, dir |-> [dir EXCEPT !.exists = FALSE, !.files = {}]]

LayerMkdirAll(dir) ==
    IF dir.exists THEN [err |-> FALSE, dir |-> dir]
    ELSE IF ~dir.writable THEN [err |-> TRUE, dir |-> dir]
    ELSE [err |-> FALSE, dir |-> [dir EXCEPT !.exists = TRUE, !.files = {}]]

\* What a LayerFunc does: it fails, having written a part; or it fills the
\* directory and returns the layer it was set up with, or a new layer for
\* the same path.
LayerFuncs == {"fails", "returns-given", "returns-new"}

RunLayerFunc(behaviour, given) ==
    CASE behaviour = "fails" ->
           [err |-> "func", layer |-> ZeroLayer, files |-> {"partial"}, steps |-> <<"func">>]
      [] behaviour = "returns-given" ->
           [err |-> "", layer |-> [given EXCEPT !.Launch = TRUE], files |-> {"bin"},
            steps |-> <<"func">>]
      [] OTHER ->
           [err |-> "", layer |-> [Path |-> given.Path, Metadata |-> <<>>, Launch |-> TRUE],
            files |-> {"bin"}, steps |-> <<"func">>]

\* What Contribute hands back: the layer and error returned, the directory
\* as it is left, and the steps taken in order.
Contributed(value, err, dir, steps) ==
    [layer |-> value, err |-> err, dir |-> dir, steps |-> steps]

\* As Contribute, but a layer whose metadata is as expected is contributed too.
ContributeAlways(expected, given, dir, run) ==
    LET dec == DecodeMetadata(expected, given.Metadata)
        removed == RemoveAll(dir)
        made == LayerMkdirAll(removed.dir)
        filled == [made.dir EXCEPT !.files = run.files]
    IN  IF dec.err THEN Contributed(ZeroLayer, "decode", dir, <<"decode">>)
        ELSE IF removed.err
        THEN Contributed(ZeroLayer, "remove", dir, <<"decode", "remove">>)
        ELSE IF made.err
        THEN Contributed(ZeroLayer, "mkdir", removed.dir, <<"decode", "remove", "mkdir">>)
        ELSE IF run.err # ""
        THEN Contributed(ZeroLayer, run.err, filled,
                         <<"decode", "remove", "mkdir">> \o run.steps)
        ELSE Contributed([run.layer EXCEPT !.Metadata = EncodeMetadata(expected, @)], "",
                         filled, <<"decode", "remove", "mkdir">> \o run.steps \o <<"encode">>)

\* LayerContributor.Contribute(layer, f), with run what f does when called.
Contribute(expected, given, dir, run) ==
    LET dec == DecodeMetadata(expected, given.Metadata)
        removed == RemoveAll(dir)
        made == LayerMkdirAll(removed.dir)
        filled == [made.dir EXCEPT !.files = run.files]
    IN  IF dec.err THEN Contributed(ZeroLayer, "decode", dir, <<"decode">>)
        ELSE IF dec.actual = expected
        THEN Contributed(given, "", dir, <<"decode", "reuse">>)
        ELSE IF removed.err
        THEN Contributed(ZeroLayer, "remove", dir, <<"decode", "remove">>)
        ELSE IF made.err
        THEN Contributed(ZeroLayer, "mkdir", removed.dir, <<"decode", "remove", "mkdir">>)
        ELSE IF run.err # ""
        THEN Contributed(ZeroLayer, run.err, filled,
                         <<"decode", "remove", "mkdir">> \o run.steps)
        ELSE Contributed([run.layer EXCEPT !.Metadata = EncodeMetadata(expected, @)], "",
                         filled, <<"decode", "remove", "mkdir">> \o run.steps \o <<"encode">>)

\* As DependencyLayerFunc, but the DependencyLayerFunc is called with the
\* stream whether or not Artifact failed.
DependencyLayerFuncUnchecked(artifact, behaviour, given) ==
    [RunLayerFunc(behaviour, given) EXCEPT !.steps = <<"artifact">> \o @]

\* The LayerFunc of DependencyLayerContributor.Contribute: Artifact, then f
\* on the stream; artifact is what Artifact returned.
DependencyLayerFunc(artifact, behaviour, given) ==
    IF artifact.err # ""
    THEN [err |-> "artifact", layer |-> ZeroLayer, files |-> {}, steps |-> <<"artifact">>]
    ELSE [RunLayerFunc(behaviour, given) EXCEPT !.steps = <<"artifact">> \o @]

\* DependencyLayerContributor.Contribute(layer, f); NewDependencyLayerContributor
\* makes the dependency the ExpectedMetadata.
DependencyContribute(dependency, given, dir, resp, behaviour) ==
    Contribute(Struct(dependency), given, dir,
               DependencyLayerFunc(Artifact(dependency, resp), behaviour, given))

(***************************************************************************)
(* The specification of the contributors                                   *)
(***************************************************************************)

\* Metadata a layer holds from an earlier build: none; the descriptor Dep0,
\* alone, next to a key no field has, and with its id under the key "ID";
\* an id that is no string; and maps of one and of two keys.
RecordOf(dependency) == AsMap(Struct(dependency))

LayerMetadatas ==
    {<<>>,
     RecordOf(Dep0),
     ("stale" :> Value("string", "s1")) @@ RecordOf(DepName),
     ("ID" :> Value("string", "id1")) @@
         [k \in DOMAIN RecordOf(Dep0) \ {"id"} |-> RecordOf(Dep0)[k]],
     ("id" :> Value("int", "7")) @@ RecordOf(Dep0),
     ("id" :> Value("string", "id1")),
     ("id" :> Value("string", "id2")) @@ ("stale" :> Value("string", "s1"))}

LayerDirs ==
    {NoLayerDir,
     [exists |-> FALSE, files |-> {}, writable |-> FALSE],
     [exists |-> TRUE, files |-> {"old"}, writable |-> TRUE],
     [exists |-> TRUE, files |-> {"old"}, writable |-> FALSE]}

\* What a contributor expects: a descriptor, or a map.
Expecteds ==
    {Struct(Dep0), Struct(DepName), Struct(DepNoStacks),
     Map(("id" :> Value("string", "id1"))),
     Map(("id" :> Value("string", "id2")) @@ ("stale" :> Value("string", "s1")))}

ContributedDependencies == {Dep0, DepName}

ContributeResponses ==
    {resp \in Responses : resp.kind = "error" \/ (resp.status = 200 /\ resp.complete)}

InitContribute ==
    /\ perm \in {EmptyTree, WithRecord(EmptyTree, Dep0, "b1")}
    /\ eph = EmptyTree
    /\ call = NoCall
    /\ calls = 0
    /\ constructed = NoConstruct
    /\ procs = <<>>
    /\ resolver = NoResolver
    /\ resolved = NoResolve
    /\ probed = NoAny
    /\ dest = NoTree
    /\ extracted = NoExtract
    /\ tarred = NoTar
    /\ ops = 0
    /\ root = NoRoot
    /\ units = <<>>
    /\ listing = NoListing
    /\ layer \in {[Path |-> "l", Metadata |-> m, Launch |-> FALSE] : m \in LayerMetadatas}
    /\ layerDir \in LayerDirs
    /\ contributed = NoContribute

\* One call of LayerContributor.Contribute on the layer the caller holds; the
\* caller keeps the layer returned, and the layer it had when the call fails.
ContributeCall(expected, behaviour) ==
    LET r == Contribute(expected, layer, layerDir, RunLayerFunc(behaviour, layer))
    IN  /\ contributed.n < MaxContributes
        /\ layer' = IF r.err = "" THEN r.layer ELSE layer
        /\ layerDir' = r.dir
        /\ contributed' = [n |-> contributed.n + 1, dependency |-> FALSE,
                           expected |-> expected, given |-> layer,
                           err |-> r.err, value |-> r.layer, steps |-> r.steps]
        /\ UNCHANGED <<cacheVars, resolverVars, crushVars, listingVars>>

\* One call of DependencyLayerContributor.Contribute.  The cache changes, and
\* the call of Artifact is counted, only when the LayerFunc ran.
DependencyContributeCall(dependency, resp, behaviour) ==
    LET r == DependencyContribute(dependency, layer, layerDir, resp, behaviour)
        a == Artifact(dependency, resp)
        called == \E i \in 1..Len(r.steps) : r.steps[i] = "artifact"
        fetched == \E i \in 1..Len(a.steps) : a.steps[i] = "fetch"
    IN  /\ contributed.n < MaxContributes
        /\ layer' = IF r.err = "" THEN r.layer ELSE layer
        /\ layerDir' = r.dir
        /\ contributed' = [n |-> contributed.n + 1, dependency |-> TRUE,
                           expected |-> Struct(dependency), given |-> layer,
                           err |-> r.err, value |-> r.layer, steps |-> r.steps]
        /\ eph' = IF called THEN a.eph ELSE eph
        /\ call' = IF called
                   THEN [dependency |-> dependency,
                         resp |-> IF fetched THEN resp ELSE NoResponse,
                         err |-> a.err, stream |-> a.stream, steps |-> a.steps]
                   ELSE call
        /\ calls' = IF called THEN calls + 1 ELSE calls
        /\ UNCHANGED <<perm, constructed, procs, resolverVars, crushVars, listingVars>>

NextContribute ==
    \/ \E expected \in Expecteds, behaviour \in LayerFuncs :
           ContributeCall(expected, behaviour)
    \/ \E dependency \in ContributedDependencies, resp \in ContributeResponses,
          behaviour \in LayerFuncs :
           DependencyContributeCall(dependency, resp, behaviour)

SpecContribute == InitContribute /\ [][NextContribute]_vars

(***************************************************************************)
(* Properties of the cache                                                 *)
(***************************************************************************)

\* The last call took this step.
Took(c, step) == \E i \in 1..Len(c.steps) : c.steps[i] = step

\* The descriptor a tier has persisted for the digest of dependency: what its
\* sidecar decodes to on its own.  HasRecord: the sidecar is a document.
HasRecord(tree, dependency) == tree[SidecarPath(dependency)].kind = "toml"
Persisted(tree, dependency) == Unify(tree[SidecarPath(dependency)], ZeroDependency)
Matches(tree, dependency) ==
    HasRecord(tree, dependency) /\ Persisted(tree, dependency) = dependency

\* The sidecar of a tier can be read: it is absent, or it is a document.
Readable(tree, dependency) == tree[SidecarPath(dependency)].kind \in {"none", "toml"}

\* The origin served the complete artifact of the dependency's digest.
ServedArtifact(c) ==
    /\ c.resp.kind = "response"
    /\ c.resp.status >= 200 /\ c.resp.status <= 299
    /\ c.resp.complete
    /\ Sha256(c.resp.body) = c.dependency.SHA256

\* C1: no invalid cache entry is observable in the ephemeral tier: whenever
\* the sidecar <DownloadPath>/<h>.toml holds a descriptor D, the file
\* <DownloadPath>/<h>/<base(D.URI)> exists and its sha-256 is h; and a call
\* served as an ephemeral-tier hit returns bytes whose sha-256 is the digest asked for.
C1_NoInvalidCacheEntry ==
    /\ \A h \in Digests :
          LET file == eph[<<TomlName(h)>>]
              D == Unify(file, ZeroDependency)
          IN  file.kind = "toml" =>
                 /\ eph[<<h, Base(D.URI)>>].kind = "blob"
                 /\ Sha256(eph[<<h, Base(D.URI)>>].bytes) = h
    /\ (Took(call, "open-ephemeral") /\ call.err = "") =>
          Sha256(ReadAll(call.stream)) = call.dependency.SHA256

\* C2: a tier's artifact is served only if the descriptor persisted in that
\* tier's own sidecar equals the requested dependency in every field.
C2_HitOnlyOnEqualRecord ==
    /\ Took(call, "open-permanent") => Matches(perm, call.dependency)
    /\ Took(call, "open-ephemeral") => Matches(eph, call.dependency)

\* C3: the tiers are consulted in the order permanent, ephemeral, origin, and the
\* first match ends the call: a matching permanent record is served without
\* reading the ephemeral tier or fetching; a matching ephemeral record alone is
\* served without fetching; the origin is asked only when neither matches.
\* (eph is the tier before the call, call' the call; both sidecars readable.)
C3_TierOrder ==
    [][LET d == call'.dependency
           pm == Matches(perm, d)
           em == Matches(eph, d)
       IN  (d.SHA256 # "" /\ Readable(perm, d) /\ Readable(eph, d)) =>
              /\ pm => call'.steps = <<"decode-permanent", "open-permanent">>
              /\ (~pm /\ em) =>
                    call'.steps = <<"decode-permanent", "decode-ephemeral", "open-ephemeral">>
              /\ Took(call', "fetch") => (~pm /\ ~em)
              /\ (~pm /\ ~em) =>
                    /\ Len(call'.steps) >= 3
                    /\ SubSeq(call'.steps, 1, 3) =
                          <<"decode-permanent", "decode-ephemeral", "fetch">>]_vars

\* C4: two consecutive calls with the same digest-bearing dependency, the origin
\* serving the artifact of that digest whenever asked, fetch at most once; if the
\* first succeeds the second is served from a cache tier with the same bytes.
C4_SecondCallCached ==
    [][(/\ call.dependency = call'.dependency
        /\ call'.dependency.SHA256 # ""
        /\ Took(call, "fetch") => ServedArtifact(call)
        /\ Took(call', "fetch") => ServedArtifact(call'))
       => /\ ~(Took(call, "fetch") /\ Took(call', "fetch"))
          /\ call.err = "" =>
                /\ call'.err = ""
                /\ Took(call', "open-permanent") \/ Took(call', "open-ephemeral")
                /\ call'.stream = call.stream]_vars

\* A sidecar path or a digest-keyed artifact path of a tier.
CachePaths == {<<TomlName(h)>> : h \in Digests} \cup {<<h, b>> : h \in Digests, b \in Bases}

\* C5: a call without digest always asks the origin, exactly once, and returns
\* what it fetched, whatever the tiers hold; it creates or modifies no sidecar
\* and no digest-keyed artifact in either tier.
C5_NoDigestBypassesCache ==
    [][call'.dependency.SHA256 = "" =>
          /\ call'.steps \in {<<"fetch">>, <<"fetch", "open-download">>}
          /\ (call'.resp.kind = "response" /\ call'.resp.status = 200 /\ call'.resp.complete)
                => (call'.err = "" /\ call'.stream = Blob(call'.resp.body))
          /\ \A p \in CachePaths : eph'[p] = eph[p] /\ perm'[p] = perm[p]]_vars

\* A call ended with the integrity error.
IntegrityError(c) == c.err = "verify:mismatch"

\* C6: after a call that ended with the integrity error, the ephemeral tier
\* holds no sidecar metadata for the dependency's digest.
C6_MismatchLeavesNoSidecar ==
    IntegrityError(call) => ~HasRecord(eph, call.dependency)

\* C7: after a call that ended with the integrity error, the digest-keyed
\* artifact path holds no file with the mismatching bytes.
C7_MismatchDiscardsBytes ==
    IntegrityError(call) =>
        LET file == eph[ArtifactPath(call.dependency)] IN
        ~(file.kind = "blob" /\ Sha256(file.bytes) # call.dependency.SHA256)

\* The call was a full miss that succeeded.
MissSucceeded(c) == c.dependency.SHA256 # "" /\ Took(c, "fetch") /\ c.err = ""

\* C8: after a successful full miss for D the ephemeral tier holds the sidecar
\* with the full descriptor D and the artifact file with exactly the downloaded
\* bytes, whose sha-256 is D.SHA256, and the stream returned yields those bytes.
C8_MissPersistsRecord ==
    MissSucceeded(call) =>
        /\ Matches(eph, call.dependency)
        /\ eph[ArtifactPath(call.dependency)] = Blob(call.resp.body)
        /\ Sha256(call.resp.body) = call.dependency.SHA256
        /\ call.stream = Blob(call.resp.body)

C8_Witness ==
    /\ MissSucceeded(call)
    /\ call.dependency = DepNoLicenses
    /\ HasRecord(perm, call.dependency)

\* C9: a response whose status is outside 200..299 makes the call fail with the
\* download error, with or without digest, and leaves both tiers as they were.
C9_BadStatusChangesNothing ==
    [][(call'.resp.kind = "response" /\ (call'.resp.status < 200 \/ call'.resp.status > 299))
          => /\ call'.err = "download:status"
             /\ call'.stream = NoFile
             /\ eph' = eph
             /\ perm' = perm]_vars

C9_Witness ==
    /\ call.resp.kind = "response" /\ call.resp.status = 300
    /\ call.err = "download:status"
    /\ call.dependency.SHA256 # ""
    /\ eph[ArtifactPath(call.dependency)].kind = "blob"

(***************************************************************************)
(* Properties of the resolver                                              *)
(***************************************************************************)

\* Semantic-version precedence of two version strings, from their parts:
\* major, minor, patch, then a pre-release below the release.
Precedes(s, t) ==
    LET v == NewVersion(s)
        w == NewVersion(t)
    IN  \/ v.major < w.major
        \/ v.major = w.major /\ v.minor < w.minor
        \/ v.major = w.major /\ v.minor = w.minor /\ v.patch < w.patch
        \/ /\ v.major = w.major /\ v.minor = w.minor /\ v.patch = w.patch
           /\ v.pre # <<>>
           /\ w.pre = <<>> \/ IdentifierRank(v.pre[1]) < IdentifierRank(w.pre[1])

\* The entries of the catalog that match the last query.
Matching ==
    LET cat == resolver.Dependencies
        vc == NewConstraint(IF resolved.version = "" THEN "*" ELSE resolved.version)
    IN  {i \in 1..Len(cat) :
            /\ cat[i].ID = resolved.id
            /\ Check(vc, NewVersion(cat[i].Version))
            /\ \E k \in 1..Len(cat[i].Stacks.elems) : cat[i].Stacks.elems[k] = resolver.StackID}

AllParse ==
    \A i \in 1..Len(resolver.Dependencies) : NewVersion(resolver.Dependencies[i].Version).ok

\* C10: when every version of the catalog parses and some entry matches the id,
\* the constraint and the stack, Resolve returns one of the matching entries,
\* none of them has a strictly greater semantic version, and the entry returned
\* lists the stack.
C10_ResolveMaximum ==
    (resolved.called /\ AllParse /\ Matching # {}) =>
        /\ resolved.err = ""
        /\ \E i \in Matching : resolver.Dependencies[i] = resolved.value
        /\ \A j \in Matching :
              ~Precedes(resolved.value.Version, resolver.Dependencies[j].Version)
        /\ \E k \in 1..Len(resolved.value.Stacks.elems) :
              resolved.value.Stacks.elems[k] = resolver.StackID

\* Resolve chose among candidates where the order as strings would choose
\* another, with a same-id entry of a greater version on another stack.
C10_Witness ==
    /\ resolved.called /\ AllParse /\ resolved.err = ""
    /\ resolved.value.Version = "1.10.0-rc1"
    /\ \E j \in Matching : resolver.Dependencies[j].Version = "1.9.0"
    /\ \E j \in 1..Len(resolver.Dependencies) :
          /\ resolver.Dependencies[j] = CatalogEntry("jdk", "1.10.0", <<"s2">>)

\* The constraint of a query is well formed.
WellFormed(version) == NewConstraint(IF version = "" THEN "*" ELSE version).ok

\* The entries of the catalog that match a query: the id, the constraint and
\* the resolver's stack together.
MatchingFor(id, version) ==
    LET cat == resolver.Dependencies
        vc == NewConstraint(IF version = "" THEN "*" ELSE version)
    IN  {i \in 1..Len(cat) :
            /\ cat[i].ID = id
            /\ Check(vc, NewVersion(cat[i].Version))
            /\ \E k \in 1..Len(cat[i].Stacks.elems) : cat[i].Stacks.elems[k] = resolver.StackID}

\* C11: when every version of the catalog parses and no entry matches the id,
\* the (well-formed) constraint and the stack together, Resolve returns the
\* NoValidDependenciesError with the zero dependency, and Any with the same
\* arguments returns false.
C11_NoMatchIsNoValid ==
    /\ (/\ resolved.called /\ AllParse /\ WellFormed(resolved.version)
        /\ MatchingFor(resolved.id, resolved.version) = {})
          => (resolved.err = "novalid" /\ resolved.value = ZeroDependency)
    /\ (/\ probed.called /\ AllParse /\ WellFormed(probed.version)
        /\ MatchingFor(probed.id, probed.version) = {})
          => probed.value = FALSE

\* Resolve and Any were asked the same query, which no entry satisfies although
\* one has the id and a version within the constraint, and another the stack
\* and a version within the constraint.
C11_Witness ==
    /\ resolved.called /\ probed.called /\ AllParse
    /\ resolved.id = "jdk" /\ resolved.version = ">=1.9.0-0"
    /\ probed.id = resolved.id /\ probed.version = resolved.version
    /\ MatchingFor(resolved.id, resolved.version) = {}
    /\ resolved.err = "novalid" /\ probed.value = FALSE
    /\ \E i, j \in 1..Len(resolver.Dependencies) :
          /\ resolver.Dependencies[i] = CatalogEntry("jdk", "1.10.0", <<"s2">>)
          /\ resolver.Dependencies[j] = CatalogEntry("jre", "1.10.0", <<"s2", "s1">>)

\* C12: Any returns true exactly when Resolve with the same arguments returns
\* no error, and neither call changes the resolver (its catalog and stack).
C12_AnyIsResolveSucceeds ==
    [][/\ resolver' = resolver
       /\ (/\ probed'.called /\ resolved'.called
           /\ probed'.id = resolved'.id /\ probed'.version = resolved'.version)
             => (probed'.value <=> (resolved'.err = ""))]_vars

\* Both answers of Any have been seen next to Resolve's for the same query.
C12_Witness ==
    /\ probed.called /\ resolved.called
    /\ probed.id = resolved.id /\ probed.version = resolved.version
    /\ probed.value /\ resolved.err = ""
    /\ resolved.value.Version = "1.10.0-rc1"

\* C13: if some entry of the catalog has a version that does not parse, Resolve
\* fails with the version error, neither NoValidDependenciesError nor a result,
\* for every query with a well-formed constraint, whatever the id and the
\* stacks of that entry and whatever else would match.
C13_BadVersionIsFatal ==
    (resolved.called /\ ~AllParse /\ WellFormed(resolved.version)) =>
        (resolved.err = "version" /\ resolved.value = ZeroDependency)

\* The only unparsable entry has another id and an incompatible stack, and an
\* entry of the catalog would match the query.
C13_Witness ==
    /\ resolved.called /\ resolved.id = "jre" /\ resolved.version = ""
    /\ resolved.err = "version"
    /\ \E i, j \in 1..Len(resolver.Dependencies) :
          /\ resolver.Dependencies[i] = CatalogEntry("jdk", "bad", <<"s2">>)
          /\ resolver.Dependencies[j] = CatalogEntry("jre", "1.10.0", <<"s2", "s1">>)
          /\ i > j
    /\ \A i \in 1..Len(resolver.Dependencies) :
          resolver.Dependencies[i].Version = "bad" =>
             resolver.Dependencies[i] = CatalogEntry("jdk", "bad", <<"s2">>)

\* C14: a malformed constraint makes Resolve fail with the constraint error,
\* whatever the catalog holds: nothing, no match, or versions that do not parse.
C14_BadConstraintFirst ==
    (resolved.called /\ ~WellFormed(resolved.version)) =>
        (resolved.err = "constraint" /\ resolved.value = ZeroDependency)

\* The constraint error was returned over a catalog whose first entry does not parse.
C14_Witness ==
    /\ resolved.called /\ ~WellFormed(resolved.version)
    /\ resolved.err = "constraint"
    /\ Len(resolver.Dependencies) > 0
    /\ ~NewVersion(resolver.Dependencies[1].Version).ok

(***************************************************************************)
(* Properties of crush                                                     *)
(***************************************************************************)

\* C15: every error that arises inside an operation is returned to its caller:
\* when the Close that ends the archive of a CreateTar or CreateTarGz call
\* failed, the call returned an error.
C15_ErrorsReturned ==
    (tarred.called /\ tarred.dropped # "") => tarred.err # ""

\* The step is an Extract call.
ExtractStep == ops' = ops + 1 /\ tarred' = tarred

\* The number of separator-delimited segments of a name.
SegmentCount(name) == 1 + Cardinality({i \in 1..Len(name) : name[i] = Separator})

\* What is left of a name behind its n-th separator.
Remaining(name, n) ==
    LET seps == {i \in 1..Len(name) : name[i] = Separator}
        cut == CHOOSE i \in seps : Cardinality({j \in seps : j <= i}) = n
    IN  IF n = 0 THEN name ELSE SubSeq(name, cut + 1, Len(name))

\* Line j of the log of call e stands for an entry that was written, and no
\* later line of the log has its path.
Settled(e, j) ==
    /\ e.done[j].act # "skip"
    /\ j < Len(e.done) \/ e.err = ""
    /\ \A m \in (j + 1)..Len(e.done) : e.done[m].path # e.done[j].path

\* The tree holds at the path of line j what the entry of that line is: the
\* path is a directory, is the link, or opens as the file of the entry's bytes.
Placed(tree, e, j) ==
    LET d == e.done[j]
        f == e.source.entries[d.entry]
        q == Follow(tree, d.path)
    IN  CASE d.act = "dir" -> q = Destination \/ (Has(tree, q) /\ tree[q] = Directory)
          [] d.act = "link" -> Has(tree, d.path) /\ tree[d.path] = Link(f.Linkname)
          [] OTHER -> Has(tree, q) /\ tree[q] = Blob(f.bytes)

\* C16: for every entry of a tar or zip archive whose name has k segments and
\* every stripComponents n: when k > n the entry is placed at the destination
\* joined with what is left of the name behind its first n segments; when
\* k <= n the entry is skipped, without output and without an error of its
\* own, and the extraction goes on with the next entry.
C16_StripComponents ==
    [][ExtractStep =>
          LET e == extracted'
              n == e.stripComponents
          IN  /\ \A j \in 1..Len(e.done) :
                    LET d == e.done[j]
                        f == e.source.entries[d.entry]
                    IN  /\ d.entry = j
                        /\ (SegmentCount(f.Name) <= n) <=> (d.act = "skip")
                        /\ d.act # "skip" =>
                              Remaining(f.Name, n) \in
                                 {PathString(d.path), PathString(d.path) \o <<Separator>>}
                        /\ Settled(e, j) => Placed(dest', e, j)
                        /\ (d.act = "skip" /\ j = Len(e.done)) =>
                              \/ e.err = "" /\ j = Len(e.source.entries)
                              \/ e.err = "read" /\ e.source.breakAt \in {j, j + 1}
              /\ (\A j \in 1..Len(e.done) : e.done[j].act = "skip") => dest' = dest]_vars

\* "x.txt" was skipped and "a/b/c.txt" then placed at b/c.txt, stripping one
\* component of a tar archive.
C16_Witness ==
    /\ extracted.called /\ extracted.format = "tar" /\ extracted.err = ""
    /\ extracted.stripComponents = 1
    /\ extracted.source = Intact(<<FileX, FileABC>>)
    /\ extracted.done[1].act = "skip"
    /\ extracted.done[2].path = <<"b", "c.txt">>
    /\ Has(dest, <<"b", "c.txt">>) /\ dest[<<"b", "c.txt">>] = Blob("b1")
    /\ ~Has(dest, <<"c.txt">>)

\* The paths a call may have made: those of its log and the directories above them.
Touched(e) ==
    UNION {{SubSeq(e.done[j].path, 1, n) : n \in 1..Len(e.done[j].path)} :
           j \in 1..Len(e.done)}

\* C17: ExtractTar returns without error only when the reader came to the end
\* of its input; when reading the next entry fails otherwise, the call returns
\* the read error, no entry behind the failure is processed, and what was
\* extracted before the failure stays in the destination.
C17_ReadErrorAborts ==
    [][(ExtractStep /\ extracted'.format = "tar") =>
          LET e == extracted'
              k == e.source.breakAt
          IN  /\ e.err = "" => (k = 0 /\ Len(e.done) = Len(e.source.entries))
              /\ (k >= 1 /\ ~e.source.inData) =>
                    /\ \A j \in 1..Len(e.done) : e.done[j].entry < k
                    /\ e.err # ""
                    /\ e.err = "read" => Len(e.done) = k - 1
              /\ e.err = "read" =>
                    /\ \A j \in 1..Len(e.done) : Settled(e, j) => Placed(dest', e, j)
                    /\ \A p \in DOMAIN dest : Has(dest', p) /\ dest'[p].kind = dest[p].kind
                    /\ DOMAIN dest' \subseteq (DOMAIN dest \cup Touched(e))]_vars

\* The header of the third entry could not be read: the two entries before it
\* are in the destination, the third is not.
C17_Witness ==
    /\ extracted.called /\ extracted.format = "tar" /\ extracted.err = "read"
    /\ extracted.stripComponents = 0
    /\ extracted.source.entries = <<DirA, FileABC, FileX>>
    /\ extracted.source.breakAt = 3
    /\ Len(extracted.done) = 2
    /\ Has(dest, <<"a", "b", "c.txt">>) /\ dest[<<"a", "b", "c.txt">>] = Blob("b1")
    /\ ~Has(dest, <<"x.txt">>)

(***************************************************************************)
(* Properties of NewFileListing                                            *)
(***************************************************************************)

\* The call has returned a listing and no error.
Listed == listing.pc = "returned" /\ listing.err = NoListingError

\* The entries of a listing are in ascending order of their Path strings.
Ascending(elems) ==
    \A i, j \in 1..Len(elems) : i < j => StringLess(elems[i].Path, elems[j].Path)

\* The entry is one of a directory, by its mode string.
IsDirEntry(entry) == entry.Mode = "drwxr-xr-x"

\* C18 as stated: over the tree {x.txt, y/z.txt} the listing has two entries,
\* sorted by path, every regular file with its sha-256 and no directory entry
\* with a digest.
C18_TwoEntries ==
    (Listed /\ root.tree = TreeXYZ) =>
        /\ Len(listing.value.elems) = 2
        /\ Ascending(listing.value.elems)
        /\ \A i \in 1..Len(listing.value.elems) :
              IsDirEntry(listing.value.elems[i]) <=> (listing.value.elems[i].SHA256 = "")

\* C18 amended: over the tree {x.txt, y/z.txt} the listing has three entries,
\* x.txt, the directory y and y/z.txt, in this order of their paths; the two
\* regular files carry the sha-256 of their content, the directory no digest.
C18_ThreeEntries ==
    (Listed /\ root.tree = TreeXYZ /\ root.dir = "r") =>
        listing.value =
            SliceOf(<<FileEntry(<<"r", "/", "x", ".", "t", "x", "t">>, "-rw-r--r--",
                                "2020-01-01T00:00:00Z", "h1"),
                      FileEntry(<<"r", "/", "y">>, "drwxr-xr-x",
                                "2020-01-01T00:00:00Z", ""),
                      FileEntry(<<"r", "/", "y", "/", "z", ".", "t", "x", "t">>,
                                "-rw-r--r--", "2020-01-01T00:00:00Z", "h2")>>)

\* The listing of {x.txt, y/z.txt} was returned after the results arrived in
\* another order than that of their paths.
C18_Witness ==
    /\ Listed /\ root.tree = TreeXYZ
    /\ Len(listing.value.elems) = 3
    /\ IsDirEntry(listing.e[1])
    /\ listing.e[2].SHA256 = "h2"

\* The entries of a set in the order of their Path strings.
RECURSIVE InPathOrder(_)
InPathOrder(entries) ==
    IF entries = {} THEN <<>>
    ELSE LET first == CHOOSE a \in entries :
                         \A b \in entries \ {a} : StringLess(a.Path, b.Path)
         IN  <<first>> \o InPathOrder(entries \ {first})

\* C19: a listing returned without error is in ascending order of Path and is
\* the one sequence fixed by the tree, whatever the order in which the units
\* ran and delivered their results.
C19_SortedAndDeterministic ==
    Listed =>
        /\ Ascending(listing.value.elems)
        /\ listing.value.elems =
              InPathOrder({UnitResult(root.dir, root.tree, p).value : p \in DOMAIN root.tree})

\* A listing was returned whose order is neither that of the walk (y/z.txt
\* before y.txt) nor that in which the results arrived.
C19_Witness ==
    /\ Listed
    /\ Has(root.tree, <<"y.txt">>)
    /\ Len(listing.value.elems) = 4
    /\ listing.e # listing.value.elems
    /\ listing.e[1].Path = Walked(root.dir, <<"y", "z.txt">>)
    /\ listing.e[2].Path = Walked(root.dir, <<"y.txt">>)

\* C20: when a unit has delivered an error, the call has returned that error
\* and a nil listing; and a call that returned after a unit was started on a
\* file that cannot be opened or read returned an error and a nil listing,
\* whatever the other units delivered.
C20_UnitErrorAborts ==
    /\ \A p \in DOMAIN units :
          (units[p].state = "done" /\ units[p].r.err # NoListingError) =>
             /\ listing.pc = "returned"
             /\ listing.err = ListingFailed(units[p].r.err)
             /\ listing.value = NilSlice
    /\ (/\ listing.pc = "returned"
        /\ \E p \in DOMAIN units :
              units[p].state # "idle" /\ root.tree[p].kind \in {"locked", "faulty"})
          => (listing.err # NoListingError /\ listing.value = NilSlice)

\* The read failure of y/z.txt was returned after two other units had
\* delivered their entries.
C20_Witness ==
    /\ listing.pc = "returned"
    /\ listing.err = ListingFailed(ListingError("hash", <<"y", "z.txt">>))
    /\ listing.value = NilSlice
    /\ Len(listing.e) = 2

\* C21 as stated: every entry of a returned listing carries in Path the path
\* of a filesystem entry relative to the root given to the call, so that the
\* Path values do not depend on the root.
C21_RelativePath ==
    Listed =>
        \A i \in 1..Len(listing.value.elems) :
            \E p \in DOMAIN root.tree : listing.value.elems[i].Path = PathString(p)

(***************************************************************************)
(* Properties of crush, continued                                          *)
(***************************************************************************)

\* C22 as stated: the archive a successful CreateTar has written and ended
\* holds one entry for every path below the source, in the order of the
\* walk, named by its relative path, a directory with a trailing separator,
\* with the type of the path, the content of a regular file and the link
\* target of a symbolic link.
C22_EntryPerPath ==
    (tarred.called /\ tarred.err = "" /\ tarred.closed) =>
        LET order == Walk(tarred.source) IN
        /\ Len(tarred.out) = Len(order)
        /\ \A i \in 1..Len(order) :
              LET info == tarred.source[order[i]]
                  h == tarred.out[i]
              IN  /\ h.Name = PathString(order[i])
                                \o (IF info.kind = "dir" THEN <<"/">> ELSE <<>>)
                  /\ info.kind = "dir" => h.Typeflag = "dir"
                  /\ info.kind = "blob" => (h.Typeflag = "file" /\ h.bytes = info.bytes)
                  /\ info.kind = "link" =>
                        (h.Typeflag = "link" /\ h.Linkname = info.target)

\* C23: ExtractTar makes of every symbolic-link entry it processes a link at
\* the stripped path whose target is the Linkname of the entry as stored,
\* also when it points outside the destination; ExtractZip makes no link.
C23_LinkVerbatim ==
    [][ExtractStep =>
          LET e == extracted' IN
          /\ e.format = "tar" =>
                \A j \in 1..Len(e.done) :
                    LET d == e.done[j]
                        f == e.source.entries[d.entry]
                    IN  (/\ f.Typeflag = "link"
                         /\ d.act # "skip"
                         /\ j < Len(e.done) \/ e.err = "") =>
                            /\ PathString(d.path) = Remaining(f.Name, e.stripComponents)
                            /\ Has(dest', d.path)
                            /\ dest'[d.path] = [kind |-> "link", target |-> f.Linkname]
          /\ e.format = "zip" =>
                \A p \in DOMAIN dest' :
                    dest'[p].kind = "link" => (Has(dest, p) /\ dest[p] = dest'[p])]_vars

\* ExtractTar made the link l with the target "./../b" as stored, which is
\* neither contained in the destination nor cleaned.
C23_Witness ==
    /\ extracted.called /\ extracted.format = "tar" /\ extracted.err = ""
    /\ extracted.source = Intact(<<LinkUp>>)
    /\ extracted.stripComponents = 0
    /\ Has(dest, <<"l">>)
    /\ dest[<<"l">>] = Link(<<".", "/", ".", ".", "/", "b">>)
    /\ Follow(dest, <<"l">>) = <<"..", "b">>

(***************************************************************************)
(* Properties of NewDependencyCache                                        *)
(***************************************************************************)

\* C24 as stated: the cache NewDependencyCache returns has the CachePath
\* <buildpack path>/dependencies and the UserAgent <buildpack id>/<buildpack
\* version>, for every buildpack.
C24_PathAndAgent ==
    constructed.called =>
        /\ constructed.cache.CachePath =
              constructed.buildpack.Path
                 \o <<"/", "d", "e", "p", "e", "n", "d", "e", "n", "c", "i", "e", "s">>
        /\ constructed.cache.UserAgent =
              constructed.buildpack.ID \o <<"/">> \o constructed.buildpack.Version

(***************************************************************************)
(* Properties of concurrent Artifact invocations                           *)
(***************************************************************************)

\* C25: Artifact takes no lock: an invocation that has not returned can take
\* its next step in every reachable state, wherever the other invocations
\* are, also while another one is between the creation of the artifact file
\* and the end of its sidecar write.
C25_NoMutualExclusion ==
    \A i \in DOMAIN procs : procs[i].pc # "done" => ENABLED ProcStep(i)

\* Invocation i downloaded the artifact of the digest completely, and its
\* verification failed because it read the file empty: invocation j had
\* truncated it and has not written it yet.
C25_Witness ==
    \E i, j \in DOMAIN procs :
        /\ i # j
        /\ procs[i].pc = "done" /\ procs[i].err = "verify:mismatch"
        /\ Sha256(procs[i].body) = RaceDependency.SHA256
        /\ procs[i].read = ""
        /\ procs[j].pc = "copy"
        /\ eph[ArtifactPath(RaceDependency)] = Blob("")

(***************************************************************************)
(* Properties of NewFileListing under fair scheduling                      *)
(***************************************************************************)

\* A unit that was started and has not ended: it runs, or is blocked in its send.
Pending(path) ==
    path \in DOMAIN units /\ units[path].state \in {"running", "sending"}

\* C26 as stated: once the call has returned an error, of a unit or of the
\* walk, every unit that was started and has not ended eventually ends.
C26_SiblingsTerminate ==
    \A path \in ListingPaths :
        (listing.pc = "returned" /\ listing.err # NoListingError /\ Pending(path))
            ~> (path \in DOMAIN units /\ units[path].state = "done")

\* C27 as stated: the sends of the units complete on a buffered channel, so
\* that the closing routine, once started, closes the channel; it is closed
\* only when every unit has completed its send, it stays closed, and no unit
\* is left sending on it.
C27_BufferedClosedOnce ==
    /\ [](listing.closer = "closed" =>
            \A path \in DOMAIN units : units[path].state = "done")
    /\ [][listing.closer = "closed" => listing'.closer = "closed"]_vars
    /\ (listing.closer = "waiting") ~> (listing.closer = "closed")

\* Every path of the tree is a directory or a file that can be read.
ReadableTree(tree) == \A p \in DOMAIN tree : tree[p].kind \in {"dir", "blob"}

\* The listing holds one entry for every path below root and no other, a
\* directory's without digest, a file's with the digest of its content.
OneEntryEach ==
    /\ Len(listing.value.elems) = Cardinality(DOMAIN root.tree)
    /\ \A p \in DOMAIN root.tree :
          \E i \in 1..Len(listing.value.elems) :
              LET entry == listing.value.elems[i] IN
              /\ entry.Path = <<root.dir, "/">> \o PathString(p)
              /\ root.tree[p].kind = "dir" => entry.SHA256 = ""
              /\ root.tree[p].kind = "blob" =>
                    (entry.SHA256 # "" /\ entry.SHA256 = Sha256(root.tree[p].bytes))

\* C28: over a tree whose walk and reads all succeed the call returns under
\* every fair interleaving, without error and with one entry for each path
\* below root, directories included; over an empty root the listing is empty.
C28_TerminatesComplete ==
    ReadableTree(root.tree) =>
        <>(/\ Listed
           /\ OneEntryEach
           /\ root.tree = NoTree => Len(listing.value.elems) = 0)

\* The call returned the listing of a tree with two files and a directory
\* with a file in it, after the closing goroutine had closed the channel.
C28_Witness ==
    /\ Listed /\ OneEntryEach
    /\ listing.closer = "closed"
    /\ Cardinality(DOMAIN root.tree) = 4
    /\ \A p \in DOMAIN units : units[p].state = "done"

(***************************************************************************)
(* Properties of the cache: the order and the place of writes              *)
(***************************************************************************)

\* The position of a step among the steps of a call, 0 when it was not taken.
StepAt(steps, name) ==
    IF \E i \in 1..Len(steps) : steps[i] = name
    THEN CHOOSE i \in 1..Len(steps) : steps[i] = name
    ELSE 0

\* The sidecars a step of the cache wrote: the paths <h>.toml of the ephemeral
\* tier at which a descriptor record appeared or changed.
SidecarsWritten == {h \in Digests : /\ eph'[<<TomlName(h)>>] # eph[<<TomlName(h)>>]
                                     /\ eph'[<<TomlName(h)>>].kind = "toml"}

C30_PermanentUntouched ==
    [][/\ \A p \in Paths : perm'[p] = perm[p]
       /\ calls' = calls + 1]_vars

\* Over a permanent tier that holds records, the third call ended with the
\* integrity error and left its download in the ephemeral tier, next to the
\* sidecar an earlier call wrote there.
C30_Witness ==
    /\ perm # EmptyTree
    /\ calls = 3
    /\ call.err = "verify:mismatch"
    /\ eph[ArtifactPath(call.dependency)] = Blob(call.resp.body)
    /\ \E h \in Digests : eph[<<TomlName(h)>>].kind = "toml"

(***************************************************************************)
(* Properties of the contributors                                          *)
(***************************************************************************)

\* The metadata of the layer given to the last call decodes without error
\* into what the contributor expects.
AsExpected(c) ==
    LET dec == DecodeMetadata(c.expected, c.given.Metadata)
    IN  ~dec.err /\ dec.actual = c.expected

\* The metadata of the layer given decodes, into something else.
Differs(c) ==
    LET dec == DecodeMetadata(c.expected, c.given.Metadata)
    IN  ~dec.err /\ dec.actual # c.expected

DidStep(c, name) == StepAt(c.steps, name) # 0

\* C31: a call on a layer whose decoded metadata equals ExpectedMetadata
\* returns the layer given, with its metadata, and no error; it does not call
\* the LayerFunc and leaves the layer directory as it was.
C31_ReuseChangesNothing ==
    [][AsExpected(contributed') =>
          /\ contributed'.err = ""
          /\ contributed'.value = contributed'.given
          /\ contributed'.value.Metadata = layer.Metadata
          /\ layer' = layer
          /\ layerDir' = layerDir
          /\ \A name \in {"remove", "mkdir", "artifact", "func", "encode"} :
                ~DidStep(contributed', name)]_vars

\* A call reused a layer whose metadata holds the id under the key "ID" and
\* whose directory holds a file of an earlier build.
C31_Witness ==
    /\ contributed.n = 1
    /\ contributed.steps = <<"decode", "reuse">>
    /\ "ID" \in DOMAIN contributed.given.Metadata
    /\ layerDir = [exists |-> TRUE, files |-> {"old"}, writable |-> TRUE]
    /\ layer = contributed.given

\* The steps of a call that are Contribute's own.
OwnSteps(c) == SelectSeq(c.steps, LAMBDA name : name # "artifact")

\* C32 as stated: on a layer whose metadata differs the steps are remove,
\* make, LayerFunc, set metadata, in this order and each once, as far as the
\* call gets; the layer returned carries the expected metadata; a LayerFunc
\* error is returned with the zero layer, the old files gone; and the next
\* call with the same ExpectedMetadata on the layer returned reuses it.
C32_ContributeInOrder ==
    [][/\ Differs(contributed') =>
             /\ OwnSteps(contributed') \in
                   {<<"decode", "remove">>, <<"decode", "remove", "mkdir">>,
                    <<"decode", "remove", "mkdir", "func">>,
                    <<"decode", "remove", "mkdir", "func", "encode">>}
             /\ contributed'.err = "" =>
                   /\ DidStep(contributed', "encode")
                   /\ \A k \in DOMAIN AsMap(contributed'.expected) :
                         /\ k \in DOMAIN contributed'.value.Metadata
                         /\ contributed'.value.Metadata[k] = AsMap(contributed'.expected)[k]
                   /\ layerDir'.exists /\ layerDir'.files = {"bin"}
             /\ contributed'.err = "func" =>
                   /\ contributed'.value = ZeroLayer
                   /\ layer' = layer
                   /\ layerDir'.exists /\ layerDir'.files = {"partial"}
       /\ ( /\ contributed.n >= 1
            /\ contributed.err = ""
            /\ DidStep(contributed, "encode")
            /\ contributed'.expected = contributed.expected
            /\ contributed'.given = contributed.value )
          => contributed'.steps = <<"decode", "reuse">>]_vars

Packable ==
    /\ tarred.called /\ ~tarred.gz
    /\ tarred.room = MaxRoom
    /\ \A p \in DOMAIN tarred.source : tarred.source[p].kind \in {"dir", "blob", "link"}

\* C34 as stated: CreateTar over such a source succeeds, and ExtractTar of
\* what it wrote, with stripComponents 0 into the empty destination, succeeds
\* and leaves the tree of the source: the same paths, each with the same
\* type, content and link target.
C34_RoundTrip ==
    Packable =>
        /\ tarred.err = "" /\ tarred.closed
        /\ (extracted.called /\ extracted.stripComponents = 0) =>
              /\ extracted.err = ""
              /\ DOMAIN dest = DOMAIN tarred.source
              /\ \A p \in DOMAIN dest : dest[p] = tarred.source[p]

====
